---- MODULE Spec2Model ----
(***************************************************************************)
(* Favorites state engine of the Yasin Favorites extension:                *)
(* out/extension.js (command handlers, clipboard, persistence) and         *)
(* out/provider/YasinFavoritesProvider.js (the Store).                     *)
(*                                                                         *)
(* A path is the sequence of its components: "/w/d/a" is <<"w","d","a">>.  *)
(* An entry without category has category NoCat (undefined in the code).   *)
(* A command handler is one action: the host runs a handler to completion  *)
(* before it dispatches the next command.                                  *)
(***************************************************************************)
EXTENDS Integers, Sequences, FiniteSets, TLC

VARIABLES
    items,              \* provider.items: sequence of [path, type, category]
    categoryList,       \* provider.categoryList: sequence of names
    sortOrder,          \* provider.sortOrder
    clipboardPaths,     \* module-level clipboardPaths
    clipboardOperation, \* module-level clipboardOperation: "cut", "copy", "null"
    fs,                 \* the filesystem: existing path -> "file" | "dir"
    cfgItems,           \* workspace setting yasinFavorites.items
    cfgCategories,      \* workspace setting yasinFavorites.categories
    cfgSortOrder,       \* workspace setting yasinFavorites.sortOrder
    last                \* the handler that ran last and how it ended

vars == <<items, categoryList, sortOrder, clipboardPaths, clipboardOperation,
          fs, cfgItems, cfgCategories, cfgSortOrder, last>>

(***************************************************************************)
(* Bounds of the model.                                                    *)
(***************************************************************************)
MaxItems == 3   \* entries in the Store
MaxSel == 2     \* nodes in the host's selection
MaxDepth == 3   \* components of a path
MaxCats == 3    \* names in CategoryList

(***************************************************************************)
(* The universe: names of files and directories, category names.           *)
(***************************************************************************)
WorkspaceRoot == <<"w">>
Names == {"a", "b", "d"}
CatNames == {"X", "Y"}
NoCat == ""
NoPath == <<>>
CreateNewFolder == "+ Create New Folder"

InitFs == (<<"w">> :> "dir") @@ (<<"w", "a">> :> "file") @@ (<<"w", "b">> :> "file")
          @@ (<<"w", "d">> :> "dir")

(***************************************************************************)
(* Sequences.                                                              *)
(***************************************************************************)
Range(s) == {s[i] : i \in DOMAIN s}

SelectSeqBy(s, S) == SelectSeq(s, LAMBDA x : x \in S)

\* Array.prototype.indexOf: the first index, 0 for "not found" (-1 in the code)
IndexOf(s, x) ==
    IF \E i \in DOMAIN s : s[i] = x
    THEN CHOOSE i \in DOMAIN s : s[i] = x /\ \A j \in 1..(i - 1) : s[j] # x
    ELSE 0

RemoveAt(s, i) == SubSeq(s, 1, i - 1) \o SubSeq(s, i + 1, Len(s))

Swap(s, i, j) == [s EXCEPT ![i] = s[j], ![j] = s[i]]

SeqsUpTo(S, n) == UNION {[1..k -> S] : k \in 0..n}

(***************************************************************************)
(* node's path module: basename, dirname, join, relative, isAbsolute.      *)
(***************************************************************************)
Basename(p) == p[Len(p)]

Dirname(p) == SubSeq(p, 1, Len(p) - 1)

Join(dir, name) == Append(dir, name)

\* q is p or lies below p
IsUnder(q, p) == Len(q) >= Len(p) /\ SubSeq(q, 1, Len(p)) = p

\* destPath.startsWith(sourcePath + path.sep)
IsStrictlyUnder(q, p) == Len(q) > Len(p) /\ SubSeq(q, 1, Len(p)) = p

(***************************************************************************)
(* The filesystem the handlers act on (node's fs and vscode.workspace.fs). *)
(* A call either succeeds and yields the new filesystem, or throws.        *)
(***************************************************************************)
Exists(f, p) == p \in DOMAIN f

IsDirectory(f, p) == Exists(f, p) /\ f[p] = "dir"

HasChildren(f, p) == \E q \in DOMAIN f : IsStrictlyUnder(q, p)

Rebase(q, src, dst) == dst \o SubSeq(q, Len(src) + 1, Len(q))

\* the tree at src placed at dst, whatever was at dst replaced
MoveTree(f, src, dst) ==
    LET moved == {q \in DOMAIN f : IsUnder(q, src)}
        kept == {q \in DOMAIN f : ~IsUnder(q, src) /\ ~IsUnder(q, dst)}
        target(q) == CHOOSE m \in moved : Rebase(m, src, dst) = q
    IN  [q \in kept \cup {Rebase(m, src, dst) : m \in moved} |->
            IF q \in kept THEN f[q] ELSE f[target(q)]]

\* fs.renameSync(src, dst): rename(2)
RenameFails(f, src, dst) ==
    \/ ~Exists(f, src)
    \/ /\ src # dst
       /\ \/ ~IsDirectory(f, Dirname(dst))
          \/ f[src] = "dir" /\ IsStrictlyUnder(dst, src)
          \/ /\ Exists(f, dst)
             /\ \/ f[src] # f[dst]
                \/ f[dst] = "dir" /\ HasChildren(f, dst)

RenameSync(f, src, dst) ==
    IF RenameFails(f, src, dst) THEN [ok |-> FALSE, fs |-> f]
    ELSE IF src = dst THEN [ok |-> TRUE, fs |-> f]
    ELSE [ok |-> TRUE, fs |-> MoveTree(f, src, dst)]

\* the ancestors of p that mkdirp has to create or to find as directories
Ancestors(p) == {SubSeq(p, 1, k) : k \in 1..(Len(p) - 1)}

\* vscode.workspace.fs.copy(src, dst, {overwrite: false})
CopyFails(f, src, dst) ==
    \/ ~Exists(f, src)
    \/ Exists(f, dst)
    \/ IsStrictlyUnder(dst, src)
    \/ \E a \in Ancestors(dst) : Exists(f, a) /\ f[a] # "dir"

FsCopy(f, src, dst) ==
    IF CopyFails(f, src, dst) THEN [ok |-> FALSE, fs |-> f]
    ELSE LET copied == {q \in DOMAIN f : IsUnder(q, src)}
             made == {a \in Ancestors(dst) : ~Exists(f, a)}
             origin(q) == CHOOSE m \in copied : Rebase(m, src, dst) = q
         IN  [ok |-> TRUE,
              fs |-> [q \in DOMAIN f \cup made \cup {Rebase(m, src, dst) : m \in copied} |->
                        IF q \in DOMAIN f THEN f[q]
                        ELSE IF q \in made THEN "dir"
                        ELSE f[origin(q)]]]

\* vscode.workspace.fs.delete(uri, {useTrash: true, recursive: true})
FsDelete(f, p) ==
    IF ~Exists(f, p) THEN [ok |-> FALSE, fs |-> f]
    ELSE [ok |-> TRUE, fs |-> [q \in {r \in DOMAIN f : ~IsUnder(r, p)} |-> f[q]]]

\* every path of the filesystem is within the model's depth
FitsDepth(f) == \A p \in DOMAIN f : Len(p) <= MaxDepth

(***************************************************************************)
(* Path Normalizer: toRelativePath and toAbsolutePath.  A stored path is   *)
(* [abs, comps]: absolute, or relative to the workspace root with "." and  *)
(* ".." components as path.relative writes them.                           *)
(***************************************************************************)
\* <<m, n>>: the name m is a proper prefix of the name n, as strings
ProperNamePrefixes == {<<"w", "w2">>}

NameStartsWith(n, m) == n = m \/ <<m, n>> \in ProperNamePrefixes

\* absolutePath.startsWith(root), on the strings
StartsWith(p, root) ==
    /\ Len(p) >= Len(root)
    /\ SubSeq(p, 1, Len(root) - 1) = SubSeq(root, 1, Len(root) - 1)
    /\ NameStartsWith(p[Len(root)], root[Len(root)])

CommonLen(p, q) ==
    CHOOSE k \in 0..Len(p) :
        /\ k <= Len(q)
        /\ SubSeq(p, 1, k) = SubSeq(q, 1, k)
        /\ (k < Len(p) /\ k < Len(q)) => p[k + 1] # q[k + 1]

\* path.relative(from, to)
Relative(from, to) ==
    LET k == CommonLen(from, to)
    IN  [i \in 1..(Len(from) - k) |-> ".."] \o SubSeq(to, k + 1, Len(to))

toRelativePath(absolutePath) ==
    IF StartsWith(absolutePath, WorkspaceRoot)
    THEN LET relative == Relative(WorkspaceRoot, absolutePath)
         IN  [abs |-> FALSE, comps |-> IF relative = <<>> THEN <<".">> ELSE relative]
    ELSE [abs |-> TRUE, comps |-> absolutePath]

RECURSIVE Normalize(_, _)
\* path.join's normalisation: "." dropped, ".." removes the component before it
Normalize(done, rest) ==
    IF rest = <<>> THEN done
    ELSE IF Head(rest) = "." THEN Normalize(done, Tail(rest))
    ELSE IF Head(rest) = ".."
         THEN Normalize(SubSeq(done, 1, Len(done) - 1), Tail(rest))
    ELSE Normalize(Append(done, Head(rest)), Tail(rest))

\* a toAbsolutePath that returns what was stored
toAbsolutePathAsStored(storedPath) == storedPath.comps

\* toAbsolutePath(storedPath): path.join(root, storedPath) unless absolute
toAbsolutePath(storedPath) ==
    IF storedPath.abs THEN storedPath.comps
    ELSE Normalize(<<>>, WorkspaceRoot \o storedPath.comps)

(***************************************************************************)
(* The Store: YasinFavoritesProvider.                                      *)
(***************************************************************************)
Item(p, t, c) == [path |-> p, type |-> t, category |-> c]

IsTracked(its, p) == \E i \in DOMAIN its : its[i].path = p

\* items.findIndex(item => item.path === p)
PathIndex(its, p) == IndexOf([i \in DOMAIN its |-> its[i].path], p)

\* an addFavorite that pushes the entry whether or not the path is tracked
addFavoriteAgain(its, itemPath, type) == Append(its, Item(itemPath, type, NoCat))

\* addFavorite: the duplicate is refused
addFavorite(its, itemPath, type) ==
    IF IsTracked(its, itemPath) THEN its
    ELSE Append(its, Item(itemPath, type, NoCat))

removeFavorite(its, itemPath) ==
    IF IsTracked(its, itemPath) THEN RemoveAt(its, PathIndex(its, itemPath)) ELSE its

\* an addCategory without the includes() test
addCategoryAlways(cats, name) == Append(cats, name)

\* provider.addCategory(name)
addCategory(cats, name) ==
    IF name \in Range(cats) THEN cats ELSE Append(cats, name)

\* a moveToCategory that sets the category of every entry
moveToCategoryOfAll(its, cats, itemPath, categoryName) ==
    [items |-> [i \in DOMAIN its |-> [its[i] EXCEPT !.category = categoryName]],
     categoryList |-> IF categoryName \in Range(cats) THEN cats
                      ELSE Append(cats, categoryName)]

\* moveToCategory: [items, categoryList] afterwards
moveToCategory(its, cats, itemPath, categoryName) ==
    IF IsTracked(its, itemPath)
    THEN [items |-> [its EXCEPT ![PathIndex(its, itemPath)].category = categoryName],
          categoryList |-> IF categoryName \in Range(cats) THEN cats
                           ELSE Append(cats, categoryName)]
    ELSE [items |-> its, categoryList |-> cats]

moveToRoot(its, itemPath) ==
    IF IsTracked(its, itemPath)
    THEN [its EXCEPT ![PathIndex(its, itemPath)].category = NoCat]
    ELSE its

\* a rename that rewrites the entries and leaves the list of categories alone
renameCategoryOfItemsOnly(its, cats, oldName, newName) ==
    [items |-> [i \in DOMAIN its |->
                    IF its[i].category = oldName
                    THEN [its[i] EXCEPT !.category = newName] ELSE its[i]],
     categoryList |-> cats]

\* provider.renameCategory(oldName, newName)
renameCategory(its, cats, oldName, newName) ==
    [items |-> [i \in DOMAIN its |->
                    IF its[i].category = oldName
                    THEN [its[i] EXCEPT !.category = newName] ELSE its[i]],
     categoryList |-> IF IndexOf(cats, oldName) > 0
                      THEN [cats EXCEPT ![IndexOf(cats, oldName)] = newName]
                      ELSE cats]

deleteCategory(its, cats, categoryName) ==
    [items |-> [i \in DOMAIN its |->
                    IF its[i].category = categoryName
                    THEN [its[i] EXCEPT !.category = NoCat] ELSE its[i]],
     categoryList |-> IF IndexOf(cats, categoryName) > 0
                      THEN RemoveAt(cats, IndexOf(cats, categoryName))
                      ELSE cats]

\* getAllCategories: the names of categoryList and of the entries' categories
getAllCategories(its, cats) ==
    Range(cats) \cup {its[i].category : i \in {j \in DOMAIN its : its[j].category # NoCat}}

\* saveConfig: the entries with their paths through toRelativePath
saveConfig(its) ==
    [i \in DOMAIN its |-> [its[i] EXCEPT !.path = toRelativePath(its[i].path)]]

\* a restore that takes the paths and the types and drops the categories
restoreItemsUncategorised(saved) ==
    [i \in DOMAIN saved |->
        Item(toAbsolutePath(saved[i].path), saved[i].type, NoCat)]

\* activate's restore: the stored entries with their paths through toAbsolutePath
restoreItems(saved) ==
    [i \in DOMAIN saved |-> [saved[i] EXCEPT !.path = toAbsolutePath(saved[i].path)]]

(***************************************************************************)
(* Ordering: provider._sortItems.  Array.prototype.sort is stable; the     *)
(* names are compared by localeCompare after toLowerCase, the modification *)
(* times as numbers, 0 for a path that does not exist.                     *)
(***************************************************************************)
Reverse(s) == [i \in 1..Len(s) |-> s[Len(s) + 1 - i]]

\* String.prototype.toLowerCase, on the names of the universe
toLowerCase(n) == IF n = "B" THEN "b" ELSE n

\* the collation of the lower-case names
Collation == <<"a", "b", "d", "o", "w", "w2">>

\* a.localeCompare(b): negative, zero or positive
localeCompare(a, b) == IndexOf(Collation, a) - IndexOf(Collation, b)

\* the files of the universe from the oldest to the newest
ModifiedOrder == <<"d", "a", "B", "b", "o", "w", "w2">>

\* _getMtime(filePath): stat.mtimeMs, 0 when the path does not exist
getMtime(f, filePath) ==
    IF Exists(f, filePath) THEN IndexOf(ModifiedOrder, Basename(filePath)) ELSE 0

\* a comparator that orders by ascending name under every sort order
compareItemsAscending(order, f, a, b) ==
    localeCompare(toLowerCase(Basename(a.path)), toLowerCase(Basename(b.path)))

\* the comparator _sortItems hands to sort() under the sort order
compareItems(order, f, a, b) ==
    CASE order = "MODIFIED" -> getMtime(f, b.path) - getMtime(f, a.path)
      [] order = "ASC" ->
            localeCompare(toLowerCase(Basename(a.path)), toLowerCase(Basename(b.path)))
      [] order = "DESC" ->
            localeCompare(toLowerCase(Basename(b.path)), toLowerCase(Basename(a.path)))
      [] OTHER -> 0

\* x placed into the sorted s behind every element that does not come after it
InsertSorted(s, x, order, f) ==
    LET k == Cardinality({i \in DOMAIN s : compareItems(order, f, s[i], x) <= 0})
    IN  SubSeq(s, 1, k) \o <<x>> \o SubSeq(s, k + 1, Len(s))

RECURSIVE StableSort(_, _, _)
\* sorted.sort(comparator)
StableSort(s, order, f) ==
    IF s = <<>> THEN <<>>
    ELSE InsertSorted(StableSort(SubSeq(s, 1, Len(s) - 1), order, f), s[Len(s)], order, f)

\* _sortItems(items) under this.sortOrder = order
sortItems(its, order, f) ==
    IF order = "MANUAL" \/ Len(its) = 0 THEN its ELSE StableSort(its, order, f)

\* fs.readdirSync(dirPath): the paths of the entries of the directory
readdirSync(f, dirPath) == {q \in DOMAIN f : Len(q) = Len(dirPath) + 1 /\ IsUnder(q, dirPath)}

\* the orders in which readdirSync may list the entries
Listings(f, dirPath) ==
    LET S == readdirSync(f, dirPath)
    IN  {s \in [1..Cardinality(S) -> S] : \A i, j \in DOMAIN s : s[i] = s[j] => i = j}

\* a comparator that applies the sort order to directories and files alike
compareChildrenByMode(order, f, a, b) ==
    CASE order = "MODIFIED" -> getMtime(f, b) - getMtime(f, a)
      [] order = "DESC" -> localeCompare(toLowerCase(Basename(b)), toLowerCase(Basename(a)))
      [] OTHER -> localeCompare(toLowerCase(Basename(a)), toLowerCase(Basename(b)))

\* the comparator of _getFilesystemChildren: directories first, then the
\* sort order, ASC or MANUAL alphabetical
compareChildren(order, f, a, b) ==
    IF IsDirectory(f, a) /\ ~IsDirectory(f, b) THEN -1
    ELSE IF ~IsDirectory(f, a) /\ IsDirectory(f, b) THEN 1
    ELSE CASE order = "MODIFIED" -> getMtime(f, b) - getMtime(f, a)
           [] order = "DESC" ->
                 localeCompare(toLowerCase(Basename(b)), toLowerCase(Basename(a)))
           [] OTHER -> localeCompare(toLowerCase(Basename(a)), toLowerCase(Basename(b)))

\* x placed into the sorted s behind every child that does not come after it
InsertChild(s, x, order, f) ==
    LET k == Cardinality({i \in DOMAIN s : compareChildren(order, f, s[i], x) <= 0})
    IN  SubSeq(s, 1, k) \o <<x>> \o SubSeq(s, k + 1, Len(s))

RECURSIVE SortChildren(_, _, _)
\* filtered.sort(comparator)
SortChildren(s, order, f) ==
    IF s = <<>> THEN <<>>
    ELSE InsertChild(SortChildren(SubSeq(s, 1, Len(s) - 1), order, f), s[Len(s)], order, f)

\* _getFilesystemChildren(dirPath) under this.sortOrder = order, of the
\* listing readdirSync returned (no name of the universe starts with a dot)
getFilesystemChildren(f, order, listing) == SortChildren(listing, order, f)

(***************************************************************************)
(* The tree the host shows, from getChildren: a node is what a command     *)
(* handler receives as `resource` or finds in treeView.selection.          *)
(***************************************************************************)
FavNode(it) == [kind |-> "fav", path |-> it.path, category |-> it.category, name |-> ""]

CatNode(c) == [kind |-> "cat", path |-> NoPath, category |-> NoCat, name |-> c]

ResNode(p) == [kind |-> "res", path |-> p, category |-> NoCat, name |-> ""]

RECURSIVE Dedup(_)
\* Array.from(new Set(s)): the first occurrence of every element, in order
Dedup(s) ==
    IF s = <<>> THEN <<>>
    ELSE LET front == Dedup(SubSeq(s, 1, Len(s) - 1))
         IN  IF s[Len(s)] \in Range(front) THEN front ELSE Append(front, s[Len(s)])

\* the categories of the list and of the entries, every occurrence kept
allCategoriesRepeated(its, cats) ==
    cats \o SelectSeq([i \in DOMAIN its |-> its[i].category], LAMBDA c : c # NoCat)

\* getAllCategories() as the array getChildren iterates: the Set of the
\* names of categoryList, then of the entries' categories
allCategories(its, cats) ==
    Dedup(cats \o SelectSeq([i \in DOMAIN its |-> its[i].category], LAMBDA c : c # NoCat))

\* getChildren(undefined): the root-level favorites in stored order, then
\* one category node for every name of allCategories
getChildren(its, cats) ==
    LET rootItems == SelectSeq(its, LAMBDA item : item.category = NoCat)
        names == allCategories(its, cats)
    IN  [i \in DOMAIN rootItems |-> FavNode(rootItems[i])]
        \o [k \in DOMAIN names |-> CatNode(names[k])]

\* getChildren(element) for a Category element: the entries of the category
getChildrenOfCategory(its, element) ==
    LET categoryItems == SelectSeq(its, LAMBDA item : item.category = element.name)
    IN  [i \in DOMAIN categoryItems |-> FavNode(categoryItems[i])]

\* no resource argument (a keyboard shortcut)
Undefined == [kind |-> "none", path |-> NoPath, category |-> NoCat, name |-> ""]

FavNodes == {FavNode(items[i]) : i \in DOMAIN items}

CatNodes == {CatNode(c) : c \in getAllCategories(items, categoryList)}

\* _getFilesystemChildren, below every favorited folder that is a directory
ResNodes ==
    {ResNode(q) : q \in {r \in DOMAIN fs :
        \E i \in DOMAIN items :
            /\ items[i].type = "folder"
            /\ IsDirectory(fs, items[i].path)
            /\ IsStrictlyUnder(r, items[i].path)}}

PathNodes == FavNodes \cup ResNodes

TreeNodes == FavNodes \cup CatNodes \cup ResNodes

\* treeView.selection: distinct nodes of the tree
Selections ==
    {sel \in SeqsUpTo(TreeNodes, MaxSel) :
        \A i, j \in DOMAIN sel : i # j => sel[i] # sel[j]}

\* r?.value || r?.itemPath
HasPath(r) == r.path # NoPath

(***************************************************************************)
(* What a handler leaves in `last`: its command, the node it was invoked   *)
(* on (moveUp, moveDown), the paths it resolved (cut, copy) or its         *)
(* destination (paste), the clipboard operation it found (paste), whether  *)
(* it ended by an uncaught exception, how many entries it rewrote, added   *)
(* or removed, and the clipboard paths whose rename succeeded (paste).     *)
(* Where the host's call is observed, `node` is its first argument and     *)
(* `sel` its second, the explicit multi-selection; `text` is the lines a   *)
(* handler wrote to the system clipboard.  The category commands record    *)
(* their node and, in `name`, the name typed or picked.  A handler that is *)
(* followed statement by statement records in `pc` the statement it has    *)
(* just executed ("done" once it has returned) and in `pre` the entries    *)
(* and the CategoryList it started from.                                   *)
(* A drop records in `src` the paths it carried, a drop or a paste in `dir` *)
(* the destination directory it resolved, and `msgs` is the messages a     *)
(* handler showed, in order.  `writes` counts the handler's calls of       *)
(* config.update (saveConfig, saveCategories, the sort order) and `fires`  *)
(* its calls of provider.refresh(), the change notification.               *)
(***************************************************************************)
Ran(cmd, node, targets, op, threw, n, moved) ==
    [cmd |-> cmd, node |-> node, targets |-> targets, op |-> op, threw |-> threw,
     n |-> n, moved |-> moved, sel |-> <<>>, text |-> <<>>, name |-> "",
     pc |-> "done", pre |-> <<>>, src |-> <<>>, dir |-> NoPath, msgs |-> <<>>,
     writes |-> 0, fires |-> 0]

\* the record l of a handler the host called with (node, sel)
Called(l, node, sel) == [l EXCEPT !.node = node, !.sel = sel]

\* the record l of a handler that wrote the settings `writes` times and
\* notified `fires` times
Counted(l, writes, fires) == [l EXCEPT !.writes = writes, !.fires = fires]

\* 1 if the condition holds, else 0
Count(b) == IF b THEN 1 ELSE 0

\* the record l of a handler called on node, the input answered with name
Named(l, node, name) == [l EXCEPT !.node = node, !.name = name]

Init ==
    /\ items = <<>>
    /\ categoryList = <<>>
    /\ sortOrder = "MANUAL"
    /\ clipboardPaths = <<>>
    /\ clipboardOperation = "null"
    /\ fs = InitFs
    /\ cfgItems = <<>>
    /\ cfgCategories = <<>>
    /\ cfgSortOrder = "MANUAL"
    /\ last = Counted(Ran("activate", Undefined, <<>>, "null", FALSE, 0, {}),
                      0, 2 + Count(Len(cfgItems) > 0))

\* a multi-root workspace: /w is workspaceFolders[0], /w2 and /o are further
\* folders of the Explorer
PathsFs ==
    InitFs @@ (<<"w", "d", "a">> :> "file")
           @@ (<<"w2">> :> "dir") @@ (<<"w2", "a">> :> "file")
           @@ (<<"o">> :> "dir") @@ (<<"o", "a">> :> "file")

InitPaths ==
    /\ items = <<>>
    /\ categoryList = <<>>
    /\ sortOrder = "MANUAL"
    /\ clipboardPaths = <<>>
    /\ clipboardOperation = "null"
    /\ fs = PathsFs
    /\ cfgItems = <<>>
    /\ cfgCategories = <<>>
    /\ cfgSortOrder = "MANUAL"
    /\ last = Counted(Ran("activate", Undefined, <<>>, "null", FALSE, 0, {}),
                      0, 2 + Count(Len(cfgItems) > 0))

\* the inputs of the orderings: entries whose basenames may coincide, exactly
\* or but for case, and one of which is missing on disk
SortOrders == {"ASC", "DESC", "MODIFIED", "MANUAL"}

SortPaths == {<<"w", "a">>, <<"w", "b">>, <<"w", "B">>, <<"w", "d">>, <<"w", "d", "a">>}

SortFs == InitFs @@ (<<"w", "B">> :> "file")

SortInputs ==
    {its \in SeqsUpTo({Item(p, IF IsDirectory(SortFs, p) THEN "folder" ELSE "file", NoCat) :
                           p \in SortPaths}, MaxItems) :
        \A i, j \in DOMAIN its : i # j => its[i].path # its[j].path}

InitSort ==
    /\ items \in SortInputs
    /\ categoryList = <<>>
    /\ sortOrder = "MANUAL"
    /\ clipboardPaths = <<>>
    /\ clipboardOperation = "null"
    /\ fs = SortFs
    /\ cfgItems = saveConfig(items)
    /\ cfgCategories = <<>>
    /\ cfgSortOrder = "MANUAL"
    /\ last = Counted(Ran("activate", Undefined, <<>>, "null", FALSE, 0, {}),
                      0, 2 + Count(Len(cfgItems) > 0))

\* the folders whose children are ordered: the favorited /w with directories
\* and files, two names equal but for case, and not all of them at once
ChildPaths == {<<"w", "a">>, <<"w", "b">>, <<"w", "B">>, <<"w", "d">>, <<"w", "o">>}

ChildrenFs(present) ==
    [q \in {WorkspaceRoot} \cup present |->
        IF q \in {WorkspaceRoot, <<"w", "d">>, <<"w", "o">>} THEN "dir" ELSE "file"]

InitChildren ==
    /\ items = <<Item(WorkspaceRoot, "folder", NoCat)>>
    /\ categoryList = <<>>
    /\ sortOrder = "MANUAL"
    /\ clipboardPaths = <<>>
    /\ clipboardOperation = "null"
    /\ fs \in {ChildrenFs(present) : present \in SUBSET ChildPaths \ {ChildPaths}}
    /\ cfgItems = saveConfig(items)
    /\ cfgCategories = <<>>
    /\ cfgSortOrder = "MANUAL"
    /\ last = Counted(Ran("activate", Undefined, <<>>, "null", FALSE, 0, {}),
                      0, 2 + Count(Len(cfgItems) > 0))

\* activate, on a reloaded window: a new provider restored from the settings
Activate ==
    /\ items' = IF Len(cfgItems) > 0 THEN restoreItems(cfgItems) ELSE <<>>
    /\ categoryList' = cfgCategories
    /\ sortOrder' = cfgSortOrder
    /\ clipboardPaths' = <<>>
    /\ clipboardOperation' = "null"
    /\ last' = Counted(Ran("activate", Undefined, <<>>, "null", FALSE, 0, {}),
                       0, 2 + Count(Len(cfgItems) > 0))
    /\ UNCHANGED <<fs, cfgItems, cfgCategories, cfgSortOrder>>

\* yasinFavorites.addToFavorites, on an Explorer URI or a Resource node
AddToFavorites(itemPath) ==
    LET type == IF IsDirectory(fs, itemPath) THEN "folder" ELSE "file"
        added == ~IsTracked(items, itemPath)
    IN  /\ added => Len(items) < MaxItems
        /\ items' = addFavorite(items, itemPath, type)
        /\ cfgItems' = IF added THEN saveConfig(items') ELSE cfgItems
        /\ last' = Counted(Ran("addToFavorites", Undefined, <<itemPath>>, "null", FALSE,
                               IF added THEN 1 ELSE 0, {}),
                           Count(added), Count(added))
        /\ UNCHANGED <<categoryList, sortOrder, clipboardPaths, clipboardOperation,
                       fs, cfgCategories, cfgSortOrder>>

\* yasinFavorites.remove
Remove(resource) ==
    /\ HasPath(resource)
    /\ items' = removeFavorite(items, resource.path)
    /\ cfgItems' = saveConfig(items')
    /\ last' = Counted(Ran("remove", Undefined, <<>>, "null", FALSE,
                           Len(items) - Len(items'), {}),
                       1, Len(items) - Len(items'))
    /\ UNCHANGED <<categoryList, sortOrder, clipboardPaths, clipboardOperation,
                   fs, cfgCategories, cfgSortOrder>>

\* a sort command that stores the order it shows
SortStoring(value) ==
    /\ cfgSortOrder' = value
    /\ sortOrder' = value
    /\ items' = sortItems(items, value, fs)
    /\ cfgItems' = saveConfig(items')
    /\ last' = Counted(Named(Ran("sort", Undefined, <<>>, "null", FALSE, 0, {}),
                             Undefined, value), 2, 1)
    /\ UNCHANGED <<categoryList, clipboardPaths, clipboardOperation, fs, cfgCategories>>

\* yasinFavorites.sort, the quick pick answered with value
Sort(value) ==
    /\ cfgSortOrder' = value
    /\ sortOrder' = value
    /\ last' = Counted(Named(Ran("sort", Undefined, <<>>, "null", FALSE, 0, {}),
                             Undefined, value), 1, 1)
    /\ UNCHANGED <<items, categoryList, clipboardPaths, clipboardOperation, fs,
                   cfgItems, cfgCategories>>

\* provider._sortItems(this.items): `text` is the paths in the order returned
SortItems ==
    /\ last' = [Ran("sortItems", Undefined, <<>>, "null", FALSE, 0, {})
                   EXCEPT !.text = [i \in DOMAIN items |->
                                       sortItems(items, sortOrder, fs)[i].path]]
    /\ UNCHANGED <<items, categoryList, sortOrder, clipboardPaths, clipboardOperation,
                   fs, cfgItems, cfgCategories, cfgSortOrder>>

\* getChildren(element) of a favorited folder or a resource directory: the
\* children as listed by readdirSync, ordered
GetFilesystemChildren(dirPath, listing) ==
    /\ IsDirectory(fs, dirPath)
    /\ listing \in Listings(fs, dirPath)
    /\ last' = [Ran("getFilesystemChildren", Undefined, <<>>, "null", FALSE, 0, {})
                    EXCEPT !.text = getFilesystemChildren(fs, sortOrder, listing),
                           !.src = listing, !.dir = dirPath, !.name = sortOrder]
    /\ UNCHANGED <<items, categoryList, sortOrder, clipboardPaths, clipboardOperation,
                   fs, cfgItems, cfgCategories, cfgSortOrder>>

\* a file or folder removed outside the panel (another program, the
\* Explorer): the entries stay, getChildren marks them "(missing)"
DeletedOutside(p) ==
    /\ Exists(fs, p)
    /\ p # WorkspaceRoot
    /\ fs' = FsDelete(fs, p).fs
    /\ last' = Ran("onDidDelete", Undefined, <<p>>, "null", FALSE, 0, {})
    /\ UNCHANGED <<items, categoryList, sortOrder, clipboardPaths, clipboardOperation,
                   cfgItems, cfgCategories, cfgSortOrder>>

\* yasinFavorites.newCategory, the input box answered with name
NewCategory(name) ==
    /\ Len(addCategory(categoryList, name)) <= MaxCats
    /\ categoryList' = addCategory(categoryList, name)
    /\ cfgCategories' = categoryList'
    /\ last' = Counted(Named(Ran("newCategory", Undefined, <<>>, "null", FALSE,
                                 Len(categoryList') - Len(categoryList), {}),
                             Undefined, name),
                       1, Len(categoryList') - Len(categoryList))
    /\ UNCHANGED <<items, sortOrder, clipboardPaths, clipboardOperation,
                   fs, cfgItems, cfgSortOrder>>

\* yasinFavorites.renameCategory, on a category node
RenameCategory(category, newName) ==
    LET r == renameCategory(items, categoryList, category.name, newName)
    IN  /\ category.kind = "cat"
        /\ newName # category.name
        /\ items' = r.items
        /\ categoryList' = r.categoryList
        /\ cfgItems' = saveConfig(items')
        /\ cfgCategories' = categoryList'
        /\ last' = Counted(Named(Ran("renameCategory", Undefined, <<>>, "null", FALSE, 0, {}),
                                 category, newName), 2, 1)
        /\ UNCHANGED <<sortOrder, clipboardPaths, clipboardOperation, fs, cfgSortOrder>>

(***************************************************************************)
(* yasinFavorites.renameCategory statement by statement: the two rewrites  *)
(* of provider.renameCategory, its refresh (the change notification), and  *)
(* the handler's two writes of the settings.  The notification and the     *)
(* writes are the observers of the Store.                                  *)
(***************************************************************************)
\* an order of the statements in which the notification comes between the
\* two rewrites
renameCategoryNotifiesFirst(pc) ==
    CASE pc = "start" -> "items"
      [] pc = "items" -> "refresh"
      [] pc = "refresh" -> "list"
      [] pc = "list" -> "saveConfig"
      [] pc = "saveConfig" -> "saveCategories"
      [] OTHER -> "done"

\* the statement that follows the statement pc
renameCategoryNext(pc) ==
    CASE pc = "start" -> "items"
      [] pc = "items" -> "list"
      [] pc = "list" -> "refresh"
      [] pc = "refresh" -> "saveConfig"
      [] pc = "saveConfig" -> "saveCategories"
      [] OTHER -> "done"

\* no handler is in progress
Idle == last.pc = "done" \/ renameCategoryNext(last.pc) = "done"

\* the handler of renameCategory is about to execute the statement
AtStatement(statement) ==
    /\ last.cmd = "renameCategory"
    /\ last.pc # "done"
    /\ renameCategoryNext(last.pc) = statement

\* this.items.forEach(item => { if (item.category === oldName) ... })
RenameCategoryItems(category, newName) ==
    /\ Idle
    /\ renameCategoryNext("start") = "items"
    /\ category.kind = "cat"
    /\ newName # category.name
    /\ items' = [i \in DOMAIN items |->
                    IF items[i].category = category.name
                    THEN [items[i] EXCEPT !.category = newName] ELSE items[i]]
    /\ last' = [Named(Ran("renameCategory", Undefined, <<>>, "null", FALSE, 0, {}),
                      category, newName)
                   EXCEPT !.pc = "items",
                          !.pre = [items |-> items, categoryList |-> categoryList]]
    /\ UNCHANGED <<categoryList, sortOrder, clipboardPaths, clipboardOperation, fs,
                   cfgItems, cfgCategories, cfgSortOrder>>

\* const index = this.categoryList.indexOf(oldName); if (index > -1) ...
RenameCategoryList ==
    /\ AtStatement("list")
    /\ categoryList' = IF IndexOf(categoryList, last.node.name) > 0
                       THEN [categoryList EXCEPT
                                ![IndexOf(categoryList, last.node.name)] = last.name]
                       ELSE categoryList
    /\ last' = [last EXCEPT !.pc = "list"]
    /\ UNCHANGED <<items, sortOrder, clipboardPaths, clipboardOperation, fs,
                   cfgItems, cfgCategories, cfgSortOrder>>

\* this.refresh(): the change notification
RenameCategoryRefresh ==
    /\ AtStatement("refresh")
    /\ last' = [last EXCEPT !.pc = "refresh", !.fires = @ + 1]
    /\ UNCHANGED <<items, categoryList, sortOrder, clipboardPaths, clipboardOperation,
                   fs, cfgItems, cfgCategories, cfgSortOrder>>

\* saveConfig(provider)
RenameCategorySaveConfig ==
    /\ AtStatement("saveConfig")
    /\ cfgItems' = saveConfig(items)
    /\ last' = [last EXCEPT !.pc = "saveConfig", !.writes = @ + 1]
    /\ UNCHANGED <<items, categoryList, sortOrder, clipboardPaths, clipboardOperation,
                   fs, cfgCategories, cfgSortOrder>>

\* saveCategories(provider)
RenameCategorySaveCategories ==
    /\ AtStatement("saveCategories")
    /\ cfgCategories' = categoryList
    /\ last' = [last EXCEPT !.pc = "saveCategories", !.writes = @ + 1]
    /\ UNCHANGED <<items, categoryList, sortOrder, clipboardPaths, clipboardOperation,
                   fs, cfgItems, cfgSortOrder>>

\* yasinFavorites.deleteCategory, confirmed
DeleteCategory(category) ==
    LET r == deleteCategory(items, categoryList, category.name)
    IN  /\ category.kind = "cat"
        /\ items' = r.items
        /\ categoryList' = r.categoryList
        /\ cfgItems' = saveConfig(items')
        /\ cfgCategories' = categoryList'
        /\ last' = Counted(Named(Ran("deleteCategory", Undefined, <<>>, "null", FALSE, 0, {}),
                                 category, ""), 2, 1)
        /\ UNCHANGED <<sortOrder, clipboardPaths, clipboardOperation, fs, cfgSortOrder>>

\* yasinFavorites.moveToCategory: `selected` is a listed category, or
\* CreateNewFolder with newName typed into the input box
MoveToCategory(resource, selected, newName) ==
    LET create == selected = CreateNewFolder
        name == IF create THEN newName ELSE selected
        r == moveToCategory(items, IF create THEN addCategory(categoryList, newName)
                                   ELSE categoryList,
                            resource.path, name)
    IN  /\ HasPath(resource)
        /\ Len(r.categoryList) <= MaxCats
        /\ items' = r.items
        /\ categoryList' = r.categoryList
        /\ cfgItems' = saveConfig(items')
        /\ cfgCategories' = IF create THEN categoryList' ELSE cfgCategories
        /\ last' = Counted(Named(Ran("moveToCategory", Undefined, <<>>, "null", FALSE, 0, {}),
                                 resource, name),
                           IF create THEN 2 ELSE 1,
                           Count(create /\ newName \notin Range(categoryList))
                               + Count(IsTracked(items, resource.path)))
        /\ UNCHANGED <<sortOrder, clipboardPaths, clipboardOperation, fs, cfgSortOrder>>

\* yasinFavorites.moveToRoot
MoveToRoot(resource) ==
    /\ HasPath(resource)
    /\ items' = moveToRoot(items, resource.path)
    /\ cfgItems' = saveConfig(items')
    /\ last' = Counted(Named(Ran("moveToRoot", Undefined, <<>>, "null", FALSE, 0, {}),
                             resource, ""),
                       1, Count(IsTracked(items, resource.path)))
    /\ UNCHANGED <<categoryList, sortOrder, clipboardPaths, clipboardOperation,
                   fs, cfgCategories, cfgSortOrder>>

\* yasinFavorites.rename, the input box answered with newName; the host's
\* call recorded as (node, name)
RenameAs(resource, newName, node, name) ==
    LET itemPath == resource.path
        newPath == Join(Dirname(itemPath), newName)
        r == RenameSync(fs, itemPath, newPath)
        isFav == IsTracked(items, itemPath)
    IN  /\ HasPath(resource)
        /\ newName # Basename(itemPath)
        /\ fs' = r.fs
        /\ items' = IF r.ok /\ isFav
                    THEN [items EXCEPT ![PathIndex(items, itemPath)].path = newPath]
                    ELSE items
        /\ cfgItems' = IF r.ok /\ isFav THEN saveConfig(items') ELSE cfgItems
        /\ last' = Counted(Named(Ran("rename", Undefined, <<>>, "null", ~r.ok,
                                     IF r.ok /\ isFav THEN 1 ELSE 0, {}), node, name),
                           Count(r.ok /\ isFav), Count(r.ok))
        /\ UNCHANGED <<categoryList, sortOrder, clipboardPaths, clipboardOperation,
                       cfgCategories, cfgSortOrder>>

\* yasinFavorites.rename
Rename(resource, newName) == RenameAs(resource, newName, Undefined, "")

\* yasinFavorites.rename, the host's call recorded
RenameWith(resource, newName) == RenameAs(resource, newName, resource, newName)

\* a resolution that prefers the host's selection to the primary target
SelectionOrResource(resource, selection) ==
    IF Len(selection) > 0 THEN selection ELSE <<resource>>

\* resource ? [resource] : treeView.selection
ResourceOrSelection(resource, selection) ==
    IF resource # Undefined THEN <<resource>> ELSE selection

\* items.filter(r => r?.value || r?.itemPath).map(r => r.value || r.itemPath)
NodePaths(nodes) ==
    LET valid == SelectSeq(nodes, HasPath)
    IN  [i \in DOMAIN valid |-> valid[i].path]

RECURSIVE deleteLoop(_, _, _, _)
\* the loop of yasinFavorites.delete from item k on: a failed delete throws
deleteLoop(its, f, paths, k) ==
    IF k > Len(paths) THEN [items |-> its, fs |-> f, threw |-> FALSE, n |-> 0]
    ELSE LET d == FsDelete(f, paths[k])
         IN  IF ~d.ok THEN [items |-> its, fs |-> f, threw |-> TRUE, n |-> 0]
             ELSE LET rest == deleteLoop(removeFavorite(its, paths[k]), d.fs, paths, k + 1)
                  IN  [rest EXCEPT !.n = @ + 1]

\* yasinFavorites.delete, confirmed; the host's call recorded as (node, sel)
DeleteAs(resource, selection, node, sel) ==
    LET paths == NodePaths(ResourceOrSelection(resource, selection))
        r == deleteLoop(items, fs, paths, 1)
    IN  /\ items' = r.items
        /\ fs' = r.fs
        /\ cfgItems' = IF Len(paths) = 0 \/ r.threw THEN cfgItems ELSE saveConfig(items')
        /\ last' = Counted(Called(Ran("delete", Undefined, paths, "null", r.threw, r.n, {}),
                                  node, sel),
                           Count(Len(paths) > 0 /\ ~r.threw),
                           (Len(items) - Len(r.items)) + Count(Len(paths) > 0 /\ ~r.threw))
        /\ UNCHANGED <<categoryList, sortOrder, clipboardPaths, clipboardOperation,
                       cfgCategories, cfgSortOrder>>

\* yasinFavorites.delete, confirmed, on at least one node with a path
Delete(resource, selection) ==
    /\ Len(NodePaths(ResourceOrSelection(resource, selection))) > 0
    /\ DeleteAs(resource, selection, Undefined, <<>>)

\* yasinFavorites.delete as the host calls it: the handler takes (resource)
\* and ignores the second argument
DeleteWith(resource, selectedItems, selection) ==
    DeleteAs(resource, selection, resource, selectedItems)

\* a cut or copy that appends its targets to the clipboard
AppendToClipboard(resource, selection, operation) ==
    LET nodes == ResourceOrSelection(resource, selection)
    IN  /\ clipboardPaths' = IF Len(nodes) > 0 THEN clipboardPaths \o NodePaths(nodes)
                              ELSE clipboardPaths
        /\ clipboardOperation' = IF Len(nodes) > 0 THEN operation ELSE clipboardOperation
        /\ last' = Ran(operation, Undefined, NodePaths(nodes), "null", FALSE, 0, {})
        /\ UNCHANGED <<items, categoryList, sortOrder, fs,
                       cfgItems, cfgCategories, cfgSortOrder>>

\* the body shared by yasinFavorites.cut and yasinFavorites.copy
SetClipboard(resource, selection, operation) ==
    LET nodes == ResourceOrSelection(resource, selection)
    IN  /\ clipboardPaths' = IF Len(nodes) > 0 THEN NodePaths(nodes) ELSE clipboardPaths
        /\ clipboardOperation' = IF Len(nodes) > 0 THEN operation ELSE clipboardOperation
        /\ last' = Ran(operation, Undefined, NodePaths(nodes), "null", FALSE, 0, {})
        /\ UNCHANGED <<items, categoryList, sortOrder, fs,
                       cfgItems, cfgCategories, cfgSortOrder>>

\* cut and copy as the host calls them: the handlers take (resource) and
\* ignore the second argument
SetClipboardWith(resource, selectedItems, selection, operation) ==
    LET nodes == ResourceOrSelection(resource, selection)
    IN  /\ clipboardPaths' = IF Len(nodes) > 0 THEN NodePaths(nodes) ELSE clipboardPaths
        /\ clipboardOperation' = IF Len(nodes) > 0 THEN operation ELSE clipboardOperation
        /\ last' = Called(Ran(operation, Undefined, NodePaths(nodes), "null", FALSE, 0, {}),
                          resource, selectedItems)
        /\ UNCHANGED <<items, categoryList, sortOrder, fs,
                       cfgItems, cfgCategories, cfgSortOrder>>

CutWith(resource, selectedItems, selection) ==
    SetClipboardWith(resource, selectedItems, selection, "cut")

CopyWith(resource, selectedItems, selection) ==
    SetClipboardWith(resource, selectedItems, selection, "copy")

\* selectedItems?.length > 0 ? selectedItems
\*                            : (resource ? [resource] : treeView.selection)
resolveItems(resource, selectedItems, selection) ==
    IF Len(selectedItems) > 0 THEN selectedItems
    ELSE ResourceOrSelection(resource, selection)

\* copyRelativePath's line for a path: root && itemPath.startsWith(root)
\* ? itemPath.replace(root + '/', '') : itemPath
replaceRoot(itemPath) ==
    IF StartsWith(itemPath, WorkspaceRoot) /\ IsStrictlyUnder(itemPath, WorkspaceRoot)
    THEN [abs |-> FALSE, comps |-> SubSeq(itemPath, Len(WorkspaceRoot) + 1, Len(itemPath))]
    ELSE [abs |-> TRUE, comps |-> itemPath]

\* yasinFavorites.copyPath: the paths written to the system clipboard
CopyPath(resource, selectedItems, selection) ==
    LET paths == NodePaths(resolveItems(resource, selectedItems, selection))
    IN  /\ last' = Called([Ran("copyPath", Undefined, paths, "null", FALSE, 0, {})
                              EXCEPT !.text = paths],
                          resource, selectedItems)
        /\ UNCHANGED <<items, categoryList, sortOrder, clipboardPaths, clipboardOperation,
                       fs, cfgItems, cfgCategories, cfgSortOrder>>

\* yasinFavorites.copyRelativePath
CopyRelativePath(resource, selectedItems, selection) ==
    LET paths == NodePaths(resolveItems(resource, selectedItems, selection))
    IN  /\ last' = Called([Ran("copyRelativePath", Undefined, paths, "null", FALSE, 0, {})
                              EXCEPT !.text = [i \in DOMAIN paths |-> replaceRoot(paths[i])]],
                          resource, selectedItems)
        /\ UNCHANGED <<items, categoryList, sortOrder, clipboardPaths, clipboardOperation,
                       fs, cfgItems, cfgCategories, cfgSortOrder>>

\* yasinFavorites.cut
Cut(resource, selection) == SetClipboard(resource, selection, "cut")

\* yasinFavorites.copy
Copy(resource, selection) == SetClipboard(resource, selection, "copy")

\* paste's destination: the resource's path, else from the first selected node
PasteTarget(f, resource, selection) ==
    IF HasPath(resource) THEN resource.path
    ELSE IF Len(selection) > 0 /\ HasPath(selection[1])
         THEN LET selectedPath == selection[1].path
              IN  IF ~Exists(f, selectedPath) THEN selectedPath
                  ELSE IF IsDirectory(f, selectedPath) THEN selectedPath
                  ELSE Dirname(selectedPath)
    ELSE NoPath

RECURSIVE pasteLoop(_, _, _, _, _, _)
\* the loop of yasinFavorites.paste from clipboard item k on: a failed rename
\* or copy throws out of the loop
pasteLoop(its, f, paths, operation, targetDir, k) ==
    IF k > Len(paths)
    THEN [items |-> its, fs |-> f, threw |-> FALSE, n |-> 0, moved |-> {}]
    ELSE LET sourcePath == paths[k]
             destPath == Join(targetDir, Basename(sourcePath))
         IN  IF ~Exists(f, sourcePath)
             THEN pasteLoop(its, f, paths, operation, targetDir, k + 1)
             ELSE IF operation = "cut"
             THEN LET r == RenameSync(f, sourcePath, destPath)
                      isFav == IsTracked(its, sourcePath)
                  IN  IF ~r.ok
                      THEN [items |-> its, fs |-> f, threw |-> TRUE, n |-> 0, moved |-> {}]
                      ELSE LET rest == pasteLoop(
                                   IF isFav
                                   THEN [its EXCEPT ![PathIndex(its, sourcePath)].path = destPath]
                                   ELSE its,
                                   r.fs, paths, operation, targetDir, k + 1)
                           IN  [rest EXCEPT !.n = @ + (IF isFav THEN 1 ELSE 0),
                                            !.moved = @ \cup {sourcePath}]
             ELSE LET c == FsCopy(f, sourcePath, destPath)
                  IN  IF ~c.ok
                      THEN [items |-> its, fs |-> f, threw |-> TRUE, n |-> 0, moved |-> {}]
                      ELSE pasteLoop(its, c.fs, paths, operation, targetDir, k + 1)

\* a paste that empties the clipboard after its loop whatever the operation
clipboardClearedAfterPaste(paths, operation, threw) ==
    IF ~threw
    THEN [paths |-> <<>>, operation |-> "null"]
    ELSE [paths |-> paths, operation |-> operation]

\* what paste does after its loop: a Cut paste that was not thrown out of the
\* loop empties the clipboard
clipboardAfterPaste(paths, operation, threw) ==
    IF operation = "cut" /\ ~threw
    THEN [paths |-> <<>>, operation |-> "null"]
    ELSE [paths |-> paths, operation |-> operation]

\* yasinFavorites.paste; the host's call recorded as (node, sel)
PasteAs(resource, selection, node, sel) ==
    LET targetDir == PasteTarget(fs, resource, selection)
        r == pasteLoop(items, fs, clipboardPaths, clipboardOperation, targetDir, 1)
        c == clipboardAfterPaste(clipboardPaths, clipboardOperation, r.threw)
    IN  /\ targetDir # NoPath
        /\ Len(clipboardPaths) > 0
        /\ FitsDepth(r.fs)
        /\ items' = r.items
        /\ fs' = r.fs
        /\ clipboardPaths' = c.paths
        /\ clipboardOperation' = c.operation
        /\ cfgItems' = IF clipboardOperation = "cut" /\ ~r.threw
                       THEN saveConfig(items') ELSE cfgItems
        /\ last' = [Called(Ran("paste", Undefined, <<targetDir>>, clipboardOperation,
                               r.threw, r.n, r.moved), node, sel)
                       EXCEPT !.dir = targetDir,
                              !.writes = Count(clipboardOperation = "cut" /\ ~r.threw),
                              !.fires = r.n + Count(~r.threw)]
        /\ UNCHANGED <<categoryList, sortOrder, cfgCategories, cfgSortOrder>>

\* yasinFavorites.paste when `targetDir && clipboardPaths.length > 0` is false:
\* the handler returns without a message
PasteNothing(resource, selection) ==
    LET targetDir == PasteTarget(fs, resource, selection)
    IN  /\ targetDir = NoPath \/ Len(clipboardPaths) = 0
        /\ last' = [Called(Ran("paste", Undefined, <<>>, clipboardOperation, FALSE, 0, {}),
                            resource, selection)
                        EXCEPT !.dir = targetDir]
        /\ UNCHANGED <<items, categoryList, sortOrder, clipboardPaths, clipboardOperation,
                       fs, cfgItems, cfgCategories, cfgSortOrder>>

\* yasinFavorites.paste
Paste(resource, selection) == PasteAs(resource, selection, Undefined, <<>>)

\* yasinFavorites.paste, the host's call recorded
PasteWith(resource, selection) == PasteAs(resource, selection, resource, selection)

(***************************************************************************)
(* A Cut paste statement by statement.  last.n is the index of the         *)
(* clipboard item the loop is at, last.pc the statement executed last for  *)
(* it, last.moved the sources renamed so far, last.dir the destination.    *)
(***************************************************************************)
\* a loop body that rewrites the entry before it renames the file
pasteCutRewritesFirst(pc) ==
    CASE pc = "begin" -> "rewrite"
      [] pc = "rewrite" -> "rename"
      [] OTHER -> "next"

\* the statement that follows the statement pc in the loop body of a Cut
\* paste: fs.renameSync, then favItem.path = destPath
pasteCutNext(pc) ==
    CASE pc = "begin" -> "rename"
      [] pc = "rename" -> "rewrite"
      [] OTHER -> "next"

\* no paste is in progress
PasteIdle == last.pc = "done"

\* the item the loop is at, and the statement executed last for it
PasteAt ==
    IF pasteCutNext(last.pc) = "next"
    THEN [k |-> last.n + 1, pc |-> "begin"]
    ELSE [k |-> last.n, pc |-> last.pc]

\* a Cut paste is about to execute the statement on an item of the clipboard
PasteAtStatement(statement) ==
    /\ last.cmd = "paste"
    /\ last.pc # "done"
    /\ PasteAt.k <= Len(clipboardPaths)
    /\ Exists(fs, clipboardPaths[PasteAt.k]) \/ PasteAt.pc # "begin"
    /\ pasteCutNext(PasteAt.pc) = statement

\* yasinFavorites.paste with a Cut clipboard, up to the loop
PasteCutBegin(resource, selection) ==
    LET targetDir == PasteTarget(fs, resource, selection)
    IN  /\ PasteIdle
        /\ clipboardOperation = "cut"
        /\ targetDir # NoPath
        /\ Len(clipboardPaths) > 0
        /\ last' = [Called(Ran("paste", Undefined, <<targetDir>>, "cut", FALSE, 1, {}),
                            resource, selection)
                        EXCEPT !.dir = targetDir, !.pc = "begin"]
        /\ UNCHANGED <<items, categoryList, sortOrder, clipboardPaths, clipboardOperation,
                       fs, cfgItems, cfgCategories, cfgSortOrder>>

\* if (!fs.existsSync(sourcePath)) continue
PasteCutSkip ==
    /\ last.cmd = "paste"
    /\ last.pc # "done"
    /\ PasteAt.k <= Len(clipboardPaths)
    /\ PasteAt.pc = "begin"
    /\ ~Exists(fs, clipboardPaths[PasteAt.k])
    /\ last' = [last EXCEPT !.n = PasteAt.k + 1, !.pc = "begin"]
    /\ UNCHANGED <<items, categoryList, sortOrder, clipboardPaths, clipboardOperation,
                   fs, cfgItems, cfgCategories, cfgSortOrder>>

\* fs.renameSync(sourcePath, destPath): a failure throws out of the handler
PasteCutRename ==
    LET sourcePath == clipboardPaths[PasteAt.k]
        destPath == Join(last.dir, Basename(sourcePath))
        r == RenameSync(fs, sourcePath, destPath)
    IN  /\ PasteAtStatement("rename")
        /\ FitsDepth(r.fs)
        /\ fs' = r.fs
        /\ last' = IF r.ok
                    THEN [last EXCEPT !.n = PasteAt.k, !.pc = "rename",
                                      !.moved = @ \cup {sourcePath}]
                    ELSE [last EXCEPT !.n = PasteAt.k, !.pc = "done", !.threw = TRUE]
        /\ UNCHANGED <<items, categoryList, sortOrder, clipboardPaths, clipboardOperation,
                       cfgItems, cfgCategories, cfgSortOrder>>

\* const favItem = items.find(f => f.path === sourcePath);
\* if (favItem) { favItem.path = destPath; provider.setItems(items); }
PasteCutRewrite ==
    LET sourcePath == clipboardPaths[PasteAt.k]
        destPath == Join(last.dir, Basename(sourcePath))
        isFav == IsTracked(items, sourcePath)
    IN  /\ PasteAtStatement("rewrite")
        /\ items' = IF isFav
                     THEN [items EXCEPT ![PathIndex(items, sourcePath)].path = destPath]
                     ELSE items
        /\ last' = [last EXCEPT !.n = PasteAt.k, !.pc = "rewrite",
                                 !.fires = @ + Count(isFav)]
        /\ UNCHANGED <<categoryList, sortOrder, clipboardPaths, clipboardOperation,
                       fs, cfgItems, cfgCategories, cfgSortOrder>>

\* after the loop: clipboardPaths = []; clipboardOperation = null;
\* saveConfig(provider); provider.refresh()
PasteCutFinish ==
    /\ last.cmd = "paste"
    /\ last.pc # "done"
    /\ PasteAt.k > Len(clipboardPaths)
    /\ clipboardPaths' = <<>>
    /\ clipboardOperation' = "null"
    /\ cfgItems' = saveConfig(items)
    /\ last' = [last EXCEPT !.n = PasteAt.k, !.pc = "done",
                             !.writes = @ + 1, !.fires = @ + 1]
    /\ UNCHANGED <<items, categoryList, sortOrder, fs, cfgCategories, cfgSortOrder>>

\* a drag that carries every dragged node that has a path
handleDragOfAll(source) == NodePaths(source)

\* handleDrag's payload: source.filter(item => item instanceof Resource),
\* mapped to the paths; empty when no payload is set
handleDrag(source) ==
    NodePaths(SelectSeq(source, LAMBDA item : item.kind = "res"))

\* provider.handleDrag(source, dataTransfer)
HandleDrag(source) ==
    /\ Len(source) > 0
    /\ last' = [Called(Ran("drag", Undefined, <<>>, "null", FALSE, 0, {}), Undefined, source)
                    EXCEPT !.src = handleDrag(source)]
    /\ UNCHANGED <<items, categoryList, sortOrder, clipboardPaths, clipboardOperation,
                   fs, cfgItems, cfgCategories, cfgSortOrder>>

(***************************************************************************)
(* A paste with its suspension point: `await vscode.workspace.fs.copy`.    *)
(* The handler runs without interruption up to the await; while it is      *)
(* suspended (last.pc = "copy", at item last.n of the array last.src it    *)
(* iterates) other handlers run.  last.op is the operation the clipboard   *)
(* held when the paste began, last.name the command that ran in between.   *)
(***************************************************************************)
RECURSIVE pasteRun(_, _, _, _, _, _)
\* the loop from item k on, up to the next await or the end: the array
\* iterated is the one the loop started with, the operation is read from
\* clipboardOperation at every item
pasteRun(its, f, paths, k, operation, targetDir) ==
    IF k > Len(paths)
    THEN [items |-> its, fs |-> f, k |-> k, status |-> "done", moved |-> {}]
    ELSE LET sourcePath == paths[k]
             destPath == Join(targetDir, Basename(sourcePath))
         IN  IF ~Exists(f, sourcePath)
             THEN pasteRun(its, f, paths, k + 1, operation, targetDir)
             ELSE IF operation = "cut"
             THEN LET r == RenameSync(f, sourcePath, destPath)
                  IN  IF ~r.ok
                      THEN [items |-> its, fs |-> f, k |-> k, status |-> "threw",
                            moved |-> {}]
                      ELSE LET rest == pasteRun(
                                   IF IsTracked(its, sourcePath)
                                   THEN [its EXCEPT ![PathIndex(its, sourcePath)].path = destPath]
                                   ELSE its,
                                   r.fs, paths, k + 1, operation, targetDir)
                           IN  [rest EXCEPT !.moved = @ \cup {sourcePath}]
             ELSE [items |-> its, fs |-> f, k |-> k, status |-> "copy", moved |-> {}]

\* the handler of paste runs on from item k with the filesystem f, to its
\* next await or to its end; l is its record so far
PasteRunOn(f, k, l) ==
    LET r == pasteRun(items, f, l.src, k, clipboardOperation, l.dir)
        cleared == r.status = "done" /\ clipboardOperation = "cut"
    IN  /\ FitsDepth(r.fs)
        /\ items' = r.items
        /\ fs' = r.fs
        /\ clipboardPaths' = IF cleared THEN <<>> ELSE clipboardPaths
        /\ clipboardOperation' = IF cleared THEN "null" ELSE clipboardOperation
        /\ cfgItems' = IF cleared THEN saveConfig(r.items) ELSE cfgItems
        /\ last' = [l EXCEPT !.pc = IF r.status = "copy" THEN "copy" ELSE "done",
                              !.n = r.k,
                              !.threw = (r.status = "threw"),
                              !.moved = @ \cup r.moved,
                              !.writes = @ + Count(cleared),
                              !.fires = @ + Count(r.status = "done")]
        /\ UNCHANGED <<categoryList, sortOrder, cfgCategories, cfgSortOrder>>

\* yasinFavorites.paste is invoked
PasteStart(resource, selection) ==
    LET targetDir == PasteTarget(fs, resource, selection)
    IN  /\ PasteIdle
        /\ targetDir # NoPath
        /\ Len(clipboardPaths) > 0
        /\ PasteRunOn(fs, 1,
                      [Called(Ran("paste", Undefined, <<targetDir>>, clipboardOperation,
                                  FALSE, 1, {}), resource, selection)
                          EXCEPT !.dir = targetDir, !.src = clipboardPaths])

\* the awaited copy settles: rejected, the handler ends by the exception;
\* fulfilled, the handler runs on
PasteResume ==
    LET sourcePath == last.src[last.n]
        c == FsCopy(fs, sourcePath, Join(last.dir, Basename(sourcePath)))
    IN  /\ last.cmd = "paste"
        /\ last.pc = "copy"
        /\ IF c.ok
           THEN PasteRunOn(c.fs, last.n + 1, last)
           ELSE /\ last' = [last EXCEPT !.pc = "done", !.threw = TRUE]
                /\ UNCHANGED <<items, categoryList, sortOrder, clipboardPaths,
                               clipboardOperation, fs, cfgItems, cfgCategories, cfgSortOrder>>

\* yasinFavorites.cut or yasinFavorites.copy invoked while a paste is
\* suspended in its copy
SetClipboardDuring(resource, selection, operation) ==
    LET nodes == ResourceOrSelection(resource, selection)
    IN  /\ last.cmd = "paste"
        /\ last.pc = "copy"
        /\ Len(nodes) > 0
        /\ clipboardPaths' = NodePaths(nodes)
        /\ clipboardOperation' = operation
        /\ last' = [last EXCEPT !.name = operation]
        /\ UNCHANGED <<items, categoryList, sortOrder, fs,
                       cfgItems, cfgCategories, cfgSortOrder>>

\* a destination taken from the target without reading it
dropFolderUnread(f, target) ==
    IF ~HasPath(target) THEN NoPath
    ELSE IF IsDirectory(f, target.path) THEN target.path
    ELSE Dirname(target.path)

\* handleDrop's destination: the target when it is a directory, the parent of
\* a target that is a file; NoPath when there is no target with a path or
\* statSync throws
dropFolder(f, target) ==
    IF ~HasPath(target) \/ ~Exists(f, target.path) THEN NoPath
    ELSE IF IsDirectory(f, target.path) THEN target.path
    ELSE Dirname(target.path)

\* the message of a rejected drop target
dropRejection(f, target) ==
    IF ~HasPath(target) THEN "Cannot drop here - select a folder as drop target"
    ELSE "Invalid drop target"

RECURSIVE handleDropLoopStopping(_, _, _, _)
\* a loop that returns at the first item it rejects
handleDropLoopStopping(f, sources, targetFolder, k) ==
    IF k > Len(sources)
    THEN [fs |-> f, attempted |-> <<>>, moved |-> {}, msgs |-> <<>>]
    ELSE LET sourcePath == sources[k]
             destPath == Join(targetFolder, Basename(sourcePath))
         IN  IF sourcePath = destPath \/ IsStrictlyUnder(destPath, sourcePath)
             THEN [fs |-> f, attempted |-> <<>>, moved |-> {}, msgs |-> <<>>]
             ELSE LET r == RenameSync(f, sourcePath, destPath)
                      rest == handleDropLoopStopping(r.fs, sources, targetFolder, k + 1)
                  IN  [rest EXCEPT !.attempted = <<sourcePath>> \o @,
                                   !.moved = IF r.ok THEN @ \cup {sourcePath} ELSE @]

RECURSIVE handleDropLoop(_, _, _, _)
\* the loop of handleDrop from item k on: `attempted` is the sources handed to
\* renameSync, `moved` those it renamed
handleDropLoop(f, sources, targetFolder, k) ==
    IF k > Len(sources)
    THEN [fs |-> f, attempted |-> <<>>, moved |-> {}, msgs |-> <<>>]
    ELSE LET sourcePath == sources[k]
             destPath == Join(targetFolder, Basename(sourcePath))
         IN  IF sourcePath = destPath
             THEN handleDropLoop(f, sources, targetFolder, k + 1)
             ELSE IF IsStrictlyUnder(destPath, sourcePath)
             THEN LET rest == handleDropLoop(f, sources, targetFolder, k + 1)
                  IN  [rest EXCEPT !.msgs = <<"Cannot move folder into itself">> \o @]
             ELSE LET r == RenameSync(f, sourcePath, destPath)
                      rest == handleDropLoop(r.fs, sources, targetFolder, k + 1)
                  IN  [rest EXCEPT !.attempted = <<sourcePath>> \o @,
                                   !.moved = IF r.ok THEN @ \cup {sourcePath} ELSE @,
                                   !.msgs = IF r.ok THEN @ ELSE <<"Failed to move">> \o @]

\* provider.handleDrop(target, dataTransfer): the dragged Resource nodes
\* dropped on target
HandleDrop(target, source) ==
    LET sources == NodePaths(source)
        targetFolder == dropFolder(fs, target)
        r == IF targetFolder = NoPath
             THEN [fs |-> fs, attempted |-> <<>>, moved |-> {},
                   msgs |-> <<dropRejection(fs, target)>>]
             ELSE handleDropLoop(fs, sources, targetFolder, 1)
    IN  /\ Len(source) > 0
        /\ \A i \in DOMAIN source : source[i].kind = "res"
        /\ FitsDepth(r.fs)
        /\ fs' = r.fs
        /\ last' = [Called(Ran("drop", Undefined, r.attempted, "null", FALSE,
                               Len(r.attempted), r.moved), target, <<>>)
                       EXCEPT !.src = sources, !.dir = targetFolder, !.msgs = r.msgs,
                              !.fires = Count(targetFolder # NoPath)]
        /\ UNCHANGED <<items, categoryList, sortOrder, clipboardPaths, clipboardOperation,
                       cfgItems, cfgCategories, cfgSortOrder>>

\* the entries of the resource's partition: item.category === category, or the
\* entries without category when the resource has none
sameCategory(its, resource) ==
    SelectSeq(its, LAMBDA it : it.category = resource.category)

\* moveUp returns early: no path, not found, or already at the top
moveUpReturns(its, resource) ==
    \/ ~HasPath(resource)
    \/ PathIndex(sameCategory(its, resource), resource.path) <= 1

moveUp(its, resource) ==
    IF moveUpReturns(its, resource) THEN its
    ELSE LET same == sameCategory(its, resource)
             currentIndex == PathIndex(same, resource.path)
             currentFullIndex == PathIndex(its, resource.path)
             prevItem == same[currentIndex - 1]
             prevFullIndex == PathIndex(its, prevItem.path)
         IN  Swap(its, currentFullIndex, prevFullIndex)

\* moveDown returns early: no path, not found, or already at the bottom
moveDownReturns(its, resource) ==
    \/ ~HasPath(resource)
    \/ PathIndex(sameCategory(its, resource), resource.path) < 1
    \/ PathIndex(sameCategory(its, resource), resource.path)
          >= Len(sameCategory(its, resource))

moveDown(its, resource) ==
    IF moveDownReturns(its, resource) THEN its
    ELSE LET same == sameCategory(its, resource)
             currentIndex == PathIndex(same, resource.path)
             currentFullIndex == PathIndex(its, resource.path)
             nextItem == same[currentIndex + 1]
             nextFullIndex == PathIndex(its, nextItem.path)
         IN  Swap(its, currentFullIndex, nextFullIndex)

\* yasinFavorites.moveUp
MoveUp(resource) ==
    /\ items' = moveUp(items, resource)
    /\ cfgItems' = IF moveUpReturns(items, resource) THEN cfgItems ELSE saveConfig(items')
    /\ last' = Counted(Ran("moveUp", resource, <<>>, "null", FALSE, 0, {}),
                       Count(~moveUpReturns(items, resource)),
                       Count(~moveUpReturns(items, resource)))
    /\ UNCHANGED <<categoryList, sortOrder, clipboardPaths, clipboardOperation,
                   fs, cfgCategories, cfgSortOrder>>

\* yasinFavorites.moveDown
MoveDown(resource) ==
    /\ items' = moveDown(items, resource)
    /\ cfgItems' = IF moveDownReturns(items, resource) THEN cfgItems ELSE saveConfig(items')
    /\ last' = Counted(Ran("moveDown", resource, <<>>, "null", FALSE, 0, {}),
                       Count(~moveDownReturns(items, resource)),
                       Count(~moveDownReturns(items, resource)))
    /\ UNCHANGED <<categoryList, sortOrder, clipboardPaths, clipboardOperation,
                   fs, cfgCategories, cfgSortOrder>>

(***************************************************************************)
(* How the host invokes a command that takes a resource: from a context    *)
(* menu on a node, or by a keyboard shortcut with the current selection.   *)
(***************************************************************************)
Invocations ==
    {<<r, <<>>>> : r \in TreeNodes} \cup {<<Undefined, sel>> : sel \in Selections}

\* paste reads no more of the selection than its first node
PasteInvocations == {v \in Invocations : Len(v[2]) <= 1}

\* the paths the Explorer and the panel offer to "Add to Favorites"
Addable == DOMAIN fs \ {WorkspaceRoot}

(***************************************************************************)
(* Specifications: the commands of one component each, in any order, on    *)
(* the nodes of the tree as it is shown, and window reloads.               *)
(***************************************************************************)
\* the Store's entries and the category model
NextCategories ==
    \/ Activate
    \/ \E p \in Addable : AddToFavorites(p)
    \/ \E r \in PathNodes : Remove(r)
    \/ \E c \in CatNames : NewCategory(c)
    \/ \E c \in CatNodes, n \in CatNames : RenameCategory(c, n)
    \/ \E c \in CatNodes : DeleteCategory(c)
    \/ \E r \in PathNodes, c \in Range(categoryList) : MoveToCategory(r, c, c)
    \/ \E r \in PathNodes, n \in CatNames : MoveToCategory(r, CreateNewFolder, n)
    \/ \E r \in PathNodes : MoveToRoot(r)

SpecCategories == Init /\ [][NextCategories]_vars

\* manual reordering, with the commands that change entries' paths and
\* categories: the root partition and the partition of one category "X"
NextReorder ==
    \/ \E p \in Addable : AddToFavorites(p)
    \/ \E r \in PathNodes, c \in Range(categoryList) \cup {CreateNewFolder} :
          MoveToCategory(r, c, "X")
    \/ \E r \in PathNodes, n \in Names : Rename(r, n)
    \/ \E r \in PathNodes : MoveUp(r)
    \/ \E r \in PathNodes : MoveDown(r)

SpecReorder == Init /\ [][NextReorder]_vars

\* the clipboard controller, on the favorites /w/a and /w/d
ClipboardAddable == {<<"w", "a">>, <<"w", "d">>}

NextClipboard ==
    \/ \E p \in ClipboardAddable \cap DOMAIN fs : AddToFavorites(p)
    \/ \E v \in Invocations : Cut(v[1], v[2])
    \/ \E v \in Invocations : Copy(v[1], v[2])
    \/ \E v \in PasteInvocations : Paste(v[1], v[2])
    \/ \E r \in PathNodes : Delete(r, <<>>)
    \/ \E r \in FavNodes : MoveToCategory(r, CreateNewFolder, "X")

SpecClipboard == Init /\ [][NextClipboard]_vars

\* cut, copy and paste from the context menu of a favorite, on the favorites
\* /w/a, /w/d and a pasted /w/d/a
CutPasteAddable == ClipboardAddable \cup {<<"w", "d", "a">>}

NextCutPaste ==
    \/ \E p \in CutPasteAddable \cap DOMAIN fs : AddToFavorites(p)
    \/ \E r \in FavNodes : Cut(r, <<>>)
    \/ \E r \in FavNodes : Copy(r, <<>>)
    \/ \E v \in PasteInvocations : Paste(v[1], v[2])
    \/ \E r \in FavNodes : MoveToCategory(r, CreateNewFolder, "X")

SpecCutPaste == Init /\ [][NextCutPaste]_vars

\* the selection resolver: how the host calls a command on the tree, as
\* <<resource, selectedItems, treeView.selection>>: by a keyboard shortcut
\* (neither argument), from the context menu of a single node (the node,
\* whatever is selected), or from the context menu of a node within a
\* multi-selection (the node and the array of the selected nodes)
ResolverCalls ==
    {<<n, <<>>, s>> : n \in TreeNodes \cup {Undefined}, s \in Selections}
    \cup UNION {{<<n, s, s>> : n \in Range(s)} : s \in {t \in Selections : Len(t) > 1}}

NextResolver ==
    \/ \E p \in ClipboardAddable : AddToFavorites(p)
    \/ NewCategory("X")
    \/ \E c \in ResolverCalls : CopyPath(c[1], c[2], c[3])
    \/ \E c \in ResolverCalls : CopyRelativePath(c[1], c[2], c[3])
    \/ \E c \in ResolverCalls : CutWith(c[1], c[2], c[3])
    \/ \E c \in ResolverCalls : CopyWith(c[1], c[2], c[3])
    \/ \E c \in ResolverCalls : DeleteWith(c[1], c[2], c[3])

SpecResolver == Init /\ [][NextResolver]_vars

\* the path normalizer: favorites anywhere in a multi-root workspace, saved
\* by saveConfig and restored by activate
NextPaths ==
    \/ Activate
    \/ \E p \in DOMAIN fs : AddToFavorites(p)
    \/ \E r \in FavNodes : Remove(r)

SpecPaths == InitPaths /\ [][NextPaths]_vars

\* the orderings of the restored entries
NextSort ==
    \/ \E v \in SortOrders : Sort(v)
    \/ SortItems

SpecSort == InitSort /\ [][NextSort]_vars

\* drag and drop below the favorited folder /w, with the favorite /w/a
DropAddable == {<<"w">>, <<"w", "a">>}

\* handleDrag: the dragged selection, of which only Resource nodes are carried
DragSources ==
    {s \in SeqsUpTo(ResNodes, MaxSel) :
        Len(s) > 0 /\ \A i, j \in DOMAIN s : i # j => s[i] # s[j]}

NextDrop ==
    \/ \E p \in DropAddable : AddToFavorites(p)
    \/ NewCategory("X")
    \/ \E s \in Selections : HandleDrag(s)
    \/ \E t \in TreeNodes \cup {Undefined}, s \in DragSources : HandleDrop(t, s)

SpecDrop == Init /\ [][NextDrop]_vars

\* paste on every node of the tree and from the keyboard
NextPasteTarget ==
    \/ \E p \in ClipboardAddable \cap DOMAIN fs : AddToFavorites(p)
    \/ \E r \in FavNodes : Cut(r, <<>>)
    \/ \E r \in FavNodes : Copy(r, <<>>)
    \/ \E v \in PasteInvocations : PasteWith(v[1], v[2])

SpecPasteTarget == Init /\ [][NextPasteTarget]_vars

\* paste from the keyboard and on nodes, with an empty selection, a category
\* selected, and favorites whose files were removed outside the panel
NextPasteNowhere ==
    \/ \E p \in ClipboardAddable \cap DOMAIN fs : AddToFavorites(p)
    \/ NewCategory("X")
    \/ \E p \in ClipboardAddable : DeletedOutside(p)
    \/ \E r \in FavNodes : Cut(r, <<>>)
    \/ \E r \in FavNodes : Copy(r, <<>>)
    \/ \E v \in PasteInvocations : PasteWith(v[1], v[2])
    \/ \E v \in PasteInvocations : PasteNothing(v[1], v[2])

SpecPasteNowhere == Init /\ [][NextPasteNowhere]_vars

\* a Cut paste statement by statement, between cuts of one node or of the
\* selection
PasteStepsAddable == {<<"w", "a">>, <<"w", "b">>, <<"w", "d">>}

NextPasteSteps ==
    \/ \E p \in PasteStepsAddable \cap DOMAIN fs : PasteIdle /\ AddToFavorites(p)
    \/ \E v \in Invocations : PasteIdle /\ Cut(v[1], v[2])
    \/ \E r \in PathNodes : PasteCutBegin(r, <<>>)
    \/ PasteCutSkip
    \/ PasteCutRename
    \/ PasteCutRewrite
    \/ PasteCutFinish

SpecPasteSteps == Init /\ [][NextPasteSteps]_vars

\* the children of the favorited folder shown under every sort order
NextChildren ==
    \/ \E v \in SortOrders : Sort(v)
    \/ \E l \in Listings(fs, WorkspaceRoot) : GetFilesystemChildren(WorkspaceRoot, l)

SpecChildren == InitChildren /\ [][NextChildren]_vars

\* the Store written to the settings and restored by a window reload:
\* favorites at the root, below it, in a sibling folder and elsewhere, in a
\* category or not, under every sort order
RestoreAddable == {WorkspaceRoot, <<"w", "d", "a">>, <<"w2", "a">>, <<"o", "a">>}

NextRestore ==
    \/ Activate
    \/ \E p \in RestoreAddable : AddToFavorites(p)
    \/ \E r \in FavNodes : MoveToCategory(r, CreateNewFolder, "X")
    \/ NewCategory("Y")
    \/ \E v \in SortOrders : Sort(v)

SpecRestore == InitPaths /\ [][NextRestore]_vars

\* rename on the nodes of the tree, among favorites in and out of a category
RenameAddable == {<<"w", "a">>, <<"w", "b">>, <<"w", "d">>}

NextRename ==
    \/ \E p \in RenameAddable \cap DOMAIN fs : AddToFavorites(p)
    \/ \E r \in FavNodes : MoveToCategory(r, CreateNewFolder, "X")
    \/ \E r \in PathNodes, n \in Names : RenameWith(r, n)

SpecRename == Init /\ [][NextRename]_vars

\* the tree under the category commands, with renames of categories onto
\* listed names and renames of favorites onto tracked paths
TreeAddable == {<<"w", "a">>, <<"w", "b">>}

NextTree ==
    \/ \E p \in TreeAddable \cap DOMAIN fs : AddToFavorites(p)
    \/ \E r \in FavNodes : MoveToCategory(r, CreateNewFolder, "X")
    \/ \E r \in FavNodes : MoveToRoot(r)
    \/ \E c \in CatNames : NewCategory(c)
    \/ \E c \in CatNodes, n \in CatNames : RenameCategory(c, n)
    \/ \E c \in CatNodes : DeleteCategory(c)
    \/ \E r \in FavNodes, n \in Names : Rename(r, n)

SpecTree == Init /\ [][NextTree]_vars

\* folders with favorites inside them renamed and moved: the favorites /w/d,
\* /w/d/a in it and the folder /o of a multi-root workspace
SyncAddable == {<<"w", "d">>, <<"w", "d", "a">>, <<"o">>}

NextSync ==
    \/ \E p \in SyncAddable \cap DOMAIN fs : AddToFavorites(p)
    \/ \E r \in FavNodes, n \in Names : RenameWith(r, n)
    \/ \E r \in FavNodes : Cut(r, <<>>)
    \/ \E r \in FavNodes : PasteWith(r, <<>>)

SpecSync == InitPaths /\ [][NextSync]_vars

\* a paste that is suspended in a copy, with cut and copy invoked meanwhile
AwaitAddable == {<<"w", "a">>, <<"w", "b">>, <<"w", "d">>}

NextPasteAwait ==
    \/ \E p \in AwaitAddable \cap DOMAIN fs : PasteIdle /\ AddToFavorites(p)
    \/ \E v \in Invocations : PasteIdle /\ Copy(v[1], v[2])
    \/ \E r \in FavNodes : PasteIdle /\ Cut(r, <<>>)
    \/ \E r \in FavNodes : PasteStart(r, <<>>)
    \/ PasteResume
    \/ \E r \in FavNodes : SetClipboardDuring(r, <<>>, "cut")
    \/ \E r \in FavNodes : SetClipboardDuring(r, <<>>, "copy")

SpecPasteAwait == Init /\ [][NextPasteAwait]_vars

\* delete on a node or on the selection, among favorites whose files may have
\* been removed outside the panel
DeleteAddable == {<<"w", "a">>, <<"w", "b">>, <<"w", "d">>}

NextDelete ==
    \/ \E p \in DeleteAddable \cap DOMAIN fs : AddToFavorites(p)
    \/ \E p \in DeleteAddable : DeletedOutside(p)
    \/ \E v \in Invocations : Delete(v[1], v[2])

SpecDelete == Init /\ [][NextDelete]_vars

\* every command that changes the entries, with the sort order changed and
\* orderings computed in between
NextOrder ==
    \/ Activate
    \/ \E p \in ClipboardAddable \cap DOMAIN fs : AddToFavorites(p)
    \/ \E r \in FavNodes : Remove(r)
    \/ \E r \in FavNodes, n \in Names : Rename(r, n)
    \/ \E r \in FavNodes : MoveToCategory(r, CreateNewFolder, "X")
    \/ \E r \in FavNodes : MoveToRoot(r)
    \/ \E r \in FavNodes : MoveUp(r)
    \/ \E r \in FavNodes : MoveDown(r)
    \/ \E r \in FavNodes : Delete(r, <<>>)
    \/ \E v \in SortOrders : Sort(v)
    \/ SortItems

SpecOrder == Init /\ [][NextOrder]_vars

\* renameCategory statement by statement, between other commands
NextRenameSteps ==
    \/ \E p \in ClipboardAddable : Idle /\ AddToFavorites(p)
    \/ \E r \in FavNodes, n \in CatNames : Idle /\ MoveToCategory(r, CreateNewFolder, n)
    \/ \E c \in CatNames : Idle /\ NewCategory(c)
    \/ \E c \in CatNodes, n \in CatNames : RenameCategoryItems(c, n)
    \/ RenameCategoryList
    \/ RenameCategoryRefresh
    \/ RenameCategorySaveConfig
    \/ RenameCategorySaveCategories

SpecRenameSteps == Init /\ [][NextRenameSteps]_vars

(***************************************************************************)
(* Partitions: the entries sharing a category.                             *)
(***************************************************************************)
FirstInPartition(its, i) == \A j \in 1..(i - 1) : its[j].category # its[i].category

LastInPartition(its, i) == \A j \in (i + 1)..Len(its) : its[j].category # its[i].category

(***************************************************************************)
(* Section 3, data model.                                                  *)
(***************************************************************************)
\* C1: in every reachable state no two entries of the Store share a path.
C1_UniquePaths ==
    \A i, j \in DOMAIN items : i # j => items[i].path # items[j].path

\* C2: in every reachable state every entry whose category is set names a
\* category that is in CategoryList.
C2_CategoriesListed ==
    \A i \in DOMAIN items :
        items[i].category # NoCat => items[i].category \in Range(categoryList)

\* C2 witness: renameCategory has run and left an entry in a category.
C2_Witness ==
    /\ last.cmd = "renameCategory"
    /\ \E i \in DOMAIN items : items[i].category # NoCat
    /\ Len(categoryList) >= 2

\* C3: in every reachable state each name occurs at most once in CategoryList.
C3_UniqueCategories ==
    \A i, j \in DOMAIN categoryList : i # j => categoryList[i] # categoryList[j]

(***************************************************************************)
(* Section 4.4, manual reordering.                                         *)
(***************************************************************************)
\* C4: a moveUp or moveDown leaves the stored sequence unchanged or swaps
\* exactly two entries of the same category; every other entry keeps its
\* index and no entry is added, removed or altered.
C4_SwapWithinPartition ==
    [][last'.cmd \in {"moveUp", "moveDown"} =>
          \/ items' = items
          \/ \E i, j \in DOMAIN items :
                /\ i # j
                /\ items[i].category = items[j].category
                /\ items' = Swap(items, i, j)]_vars

\* C5: moveUp on the first entry of its partition, and moveDown on the last
\* entry of its partition, leave the stored sequence unchanged.
C5_BoundaryNoOp ==
    [][\A i \in DOMAIN items :
          (/\ last'.node = FavNode(items[i])
           /\ \/ last'.cmd = "moveUp" /\ FirstInPartition(items, i)
              \/ last'.cmd = "moveDown" /\ LastInPartition(items, i))
          => items' = items]_vars

\* C6: for every entry that is not the last of its partition, moveDown on it
\* followed by moveUp on it gives back the stored sequence.
C6_DownThenUpRestores ==
    \A i \in DOMAIN items :
        ~LastInPartition(items, i) =>
            moveUp(moveDown(items, FavNode(items[i])), FavNode(items[i])) = items

(***************************************************************************)
(* Section 4.6, the clipboard.                                             *)
(***************************************************************************)
\* C7: a Cut paste keeps the number of entries and every entry's category,
\* type and index, and every entry that tracks a path the paste has moved
\* gets the path destination/basename.
C7_CutPasteRewritesInPlace ==
    [][(last'.cmd = "paste" /\ last'.op = "cut") =>
          /\ Len(items') = Len(items)
          /\ \A i \in DOMAIN items :
                /\ items'[i].category = items[i].category
                /\ items'[i].type = items[i].type
                /\ items[i].path \in last'.moved =>
                      items'[i].path = Join(last'.targets[1], Basename(items[i].path))]_vars

\* C8: after a Cut paste into an existing directory the clipboard holds no
\* paths and no operation, whether all of the moves succeeded or only some.
C8_CutPasteClearsClipboard ==
    [][(/\ last'.cmd = "paste"
        /\ clipboardOperation = "cut"
        /\ IsDirectory(fs, last'.targets[1])) =>
          clipboardPaths' = <<>> /\ clipboardOperation' = "null"]_vars

\* C9: a Copy paste leaves the clipboard's paths and operation as they were.
C9_CopyPasteKeepsClipboard ==
    [][(last'.cmd = "paste" /\ clipboardOperation = "copy") =>
          clipboardPaths' = clipboardPaths /\ clipboardOperation' = clipboardOperation]_vars

\* C9 witness: a Copy paste has copied /w/a into /w/d and the clipboard still
\* holds the source.
C9_Witness ==
    /\ last.cmd = "paste"
    /\ last.op = "copy"
    /\ ~last.threw
    /\ Exists(fs, <<"w", "d", "a">>)
    /\ clipboardPaths = <<(<<"w", "a">>)>>
    /\ clipboardOperation = "copy"

\* C10: after a cut or copy that resolved a non-empty sequence of targets the
\* clipboard holds exactly that sequence, in order, with that operation.
C10_ClipboardReplaced ==
    (last.cmd \in {"cut", "copy"} /\ last.targets # <<>>) =>
        clipboardPaths = last.targets /\ clipboardOperation = last.cmd

\* C10 witness: a copy of one target has run and the clipboard holds it alone.
C10_Witness ==
    /\ last.cmd = "copy"
    /\ Len(last.targets) = 1
    /\ clipboardPaths = last.targets
    /\ clipboardOperation = "copy"

(***************************************************************************)
(* Section 4.1, the selection resolver.                                    *)
(***************************************************************************)
ResolvingCommands == {"copyPath", "copyRelativePath", "cut", "copy", "delete"}

\* C11: after a command that resolves targets and was called with a
\* non-empty explicit multi-selection, the paths it acted on are the paths
\* of that multi-selection.
C11_ExplicitSelectionWins ==
    (last.cmd \in ResolvingCommands /\ last.sel # <<>>) =>
        last.targets = NodePaths(last.sel)

\* C12: after a command that resolves targets and was called with a primary
\* target and no explicit multi-selection, the paths it acted on are those of
\* the primary target alone, whatever the host's selection was.
C12_PrimaryTargetWins ==
    (last.cmd \in ResolvingCommands /\ last.sel = <<>> /\ last.node # Undefined) =>
        last.targets = NodePaths(<<last.node>>)

\* C12 witness: copy was called on the favorite /w/a alone and the clipboard
\* holds /w/a.
C12_Witness ==
    /\ last.cmd = "copy"
    /\ last.sel = <<>>
    /\ last.node.kind = "fav"
    /\ last.node.path = <<"w", "a">>
    /\ clipboardPaths = <<(<<"w", "a">>)>>

\* C13: a resolving command whose targets are empty after the nodes without
\* a path are filtered out changes neither the clipboard, nor the Store, nor
\* the filesystem, and writes nothing to the system clipboard.
C13_EmptyTargetsNoOp ==
    [][(last'.cmd \in ResolvingCommands /\ last'.targets = <<>>) =>
          /\ UNCHANGED <<clipboardPaths, clipboardOperation, items, categoryList, fs>>
          /\ last'.text = <<>>]_vars

(***************************************************************************)
(* Section 4.3, the category model.                                        *)
(***************************************************************************)
\* the indices of the entries of category c
Members(its, c) == {i \in DOMAIN its : its[i].category = c}

\* C14: renameCategory(old, new) leaves in new exactly the entries that were
\* in old, leaves every other entry in its category, and keeps the number of
\* entries and the length of CategoryList.
C14_RenamePreservesMembers ==
    [][last'.cmd = "renameCategory" =>
          /\ Len(items') = Len(items)
          /\ Members(items', last'.name) = Members(items, last'.node.name)
          /\ \A i \in DOMAIN items :
                items[i].category # last'.node.name =>
                    items'[i].category = items[i].category
          /\ Len(categoryList') = Len(categoryList)]_vars

\* the Store as renameCategory leaves it, from the Store it started from
Renamed == renameCategory(last'.pre.items, last'.pre.categoryList,
                          last'.node.name, last'.name)

\* C15: the change notification and the two persistence writes of
\* renameCategory never run in a state in which the entries have been
\* rewritten and CategoryList has not, or CategoryList has been rewritten and
\* the entries have not.
C15_RenameAtomicForObservers ==
    [][(/\ last'.cmd = "renameCategory"
        /\ last'.pc \in {"refresh", "saveConfig", "saveCategories"}) =>
          /\ ~(/\ items = Renamed.items
               /\ items # last'.pre.items
               /\ categoryList = last'.pre.categoryList
               /\ categoryList # Renamed.categoryList)
          /\ ~(/\ categoryList = Renamed.categoryList
               /\ categoryList # last'.pre.categoryList
               /\ items = last'.pre.items
               /\ items # Renamed.items)]_vars

\* C15 witness: a renameCategory that rewrote entries and CategoryList has
\* notified and written both settings.
C15_Witness ==
    /\ last.cmd = "renameCategory"
    /\ last.pc = "saveCategories"
    /\ items # last.pre.items
    /\ categoryList # last.pre.categoryList
    /\ cfgItems = saveConfig(items)
    /\ cfgCategories = categoryList

\* C16: deleteCategory of the category c removes c from CategoryList, clears
\* the category of every entry that was in c, leaves every other field of
\* every entry, their number and their order as they were, and does nothing
\* on the file system.
C16_DeleteCategoryClearsOnly ==
    [][last'.cmd = "deleteCategory" =>
          /\ last'.node.name \notin Range(categoryList')
          /\ Range(categoryList') = Range(categoryList) \ {last'.node.name}
          /\ Len(items') = Len(items)
          /\ \A i \in DOMAIN items :
                items'[i] = IF items[i].category = last'.node.name
                            THEN [items[i] EXCEPT !.category = NoCat]
                            ELSE items[i]
          /\ fs' = fs]_vars

\* C17: addCategory(name) with name already in CategoryList leaves
\* CategoryList unchanged, and addCategory(name) applied to its own result
\* changes nothing.
C17_AddCategoryIdempotent ==
    [][last'.cmd = "newCategory" =>
          /\ last'.name \in Range(categoryList) => categoryList' = categoryList
          /\ addCategory(categoryList', last'.name) = categoryList'
          /\ last'.name \in Range(categoryList')]_vars

\* C17 witness: newCategory was given a name that CategoryList already held.
C17_Witness ==
    /\ last.cmd = "newCategory"
    /\ last.n = 0
    /\ last.name \in Range(categoryList)
    /\ Len(categoryList) > 1

\* C18: moveToCategory(path, name) sets the category of the entry at path
\* to name and of no other entry, and appends name to CategoryList if it was
\* not there; moveToRoot(path) clears the category of the entry at path and
\* of no other entry and leaves CategoryList alone; neither changes the
\* number or the order of the entries, nor any other field.
C18_MoveChangesOneEntry ==
    [][last'.cmd \in {"moveToCategory", "moveToRoot"} =>
          /\ IF \E i \in DOMAIN items : items[i].path = last'.node.path
             THEN \E i \in DOMAIN items :
                      /\ items[i].path = last'.node.path
                      /\ items' = [items EXCEPT ![i].category = last'.name]
             ELSE items' = items
          /\ categoryList' = IF last'.cmd = "moveToRoot" \/ last'.name \in Range(categoryList)
                             THEN categoryList
                             ELSE Append(categoryList, last'.name)]_vars

\* C18 witness: an entry was moved into a category while another entry
\* stayed outside it.
C18_Witness ==
    /\ last.cmd = "moveToCategory"
    /\ last.name \in Range(categoryList)
    /\ \E i, j \in DOMAIN items :
          /\ items[i].path = last.node.path
          /\ items[i].category = last.name
          /\ items[j].category # last.name

\* C19: for every absolute path p that is the root or lies under it,
\* toAbsolutePath(toRelativePath(p)) = p.
C19_RoundTripUnderRoot ==
    \A i \in DOMAIN items :
        IsUnder(items[i].path, WorkspaceRoot) =>
            toAbsolutePath(toRelativePath(items[i].path)) = items[i].path

\* C19 witness: the root and a path two levels below it were saved in their
\* relative forms and restored by activate.
C19_Witness ==
    /\ last.cmd = "activate"
    /\ Len(cfgItems) = Len(items)
    /\ \E i, j \in DOMAIN items :
          /\ items[i].path = WorkspaceRoot
          /\ cfgItems[i].path = [abs |-> FALSE, comps |-> <<".">>]
          /\ items[j].path = <<"w", "d", "a">>
          /\ cfgItems[j].path = [abs |-> FALSE, comps |-> <<"d", "a">>]

\* C20: toRelativePath(p) is root-relative exactly when p is the root or lies
\* under it (the root giving "."), and is the absolute path p unchanged for
\* every other p, a sibling of the root whose name extends the root's name
\* included.
C20_RelativeExactlyInsideRoot ==
    \A i \in DOMAIN items :
        toRelativePath(items[i].path) =
            IF IsUnder(items[i].path, WorkspaceRoot)
            THEN [abs |-> FALSE,
                  comps |-> IF items[i].path = WorkspaceRoot THEN <<".">>
                            ELSE SubSeq(items[i].path, Len(WorkspaceRoot) + 1,
                                        Len(items[i].path))]
            ELSE [abs |-> TRUE, comps |-> items[i].path]

\* no two entries have basenames that are equal ignoring case
UniqueIgnoringCase(its) ==
    \A i, j \in DOMAIN its :
        i # j => toLowerCase(Basename(its[i].path)) # toLowerCase(Basename(its[j].path))

\* C21: for entries whose basenames are unique ignoring case, the Descending
\* ordering is the exact reverse of the Ascending ordering, and the Manual
\* ordering is the input order.
C21_DescendingReversesAscending ==
    UniqueIgnoringCase(items) =>
        /\ sortItems(items, "DESC", fs) = Reverse(sortItems(items, "ASC", fs))
        /\ sortItems(items, "MANUAL", fs) = items
        /\ (last.cmd = "sortItems" /\ sortOrder = "DESC") =>
              last.text = Reverse([i \in DOMAIN items |->
                                      sortItems(items, "ASC", fs)[i].path])
        /\ (last.cmd = "sortItems" /\ sortOrder = "MANUAL") =>
              last.text = [i \in DOMAIN items |-> items[i].path]

\* C21 witness: three entries with basenames unique ignoring case, stored in
\* neither order, were ordered Descending.
C21_Witness ==
    /\ last.cmd = "sortItems"
    /\ sortOrder = "DESC"
    /\ items = <<Item(<<"w", "B">>, "file", NoCat), Item(<<"w", "d">>, "folder", NoCat),
                 Item(<<"w", "a">>, "file", NoCat)>>
    /\ last.text = <<(<<"w", "d">>), (<<"w", "B">>), (<<"w", "a">>)>>

\* the destination path of the dragged item sourcePath of the last drop
DropDest(sourcePath) == Join(last'.dir, Basename(sourcePath))

\* the drop rejects the dragged item: it would land on itself or inside itself
DropRejects(sourcePath) ==
    \/ sourcePath = DropDest(sourcePath)
    \/ IsStrictlyUnder(DropDest(sourcePath), sourcePath)

\* C22: on a drop with a destination, an item whose source path equals its
\* destination path and an item whose destination lies inside its own subtree
\* is not handed to rename and stays where it was with everything below it;
\* every other item of the same drop is handed to rename, in order.
C22_DropRejectsSelfMoves ==
    [][(last'.cmd = "drop" /\ last'.dir # NoPath) =>
          /\ \A k \in DOMAIN last'.src :
                DropRejects(last'.src[k]) =>
                    /\ last'.src[k] \notin Range(last'.targets)
                    /\ (\A j \in DOMAIN last'.src : DropRejects(last'.src[j])) =>
                          fs' = fs
          /\ last'.targets = SelectSeq(last'.src, LAMBDA p : ~DropRejects(p))]_vars

\* C22 witness: a drop of two items onto the folder /w/d rejected /w/d itself
\* and moved /w/a into it.
C22_Witness ==
    /\ last.cmd = "drop"
    /\ last.src = <<(<<"w", "d">>), (<<"w", "a">>)>>
    /\ last.dir = <<"w", "d">>
    /\ last.moved = {<<"w", "a">>}
    /\ Exists(fs, <<"w", "d", "a">>)
    /\ ~Exists(fs, <<"w", "a">>)
    /\ IsDirectory(fs, <<"w", "d">>)

\* C23: a drop on a target that is a directory has the target as destination,
\* a drop on a target that is a file has the file's parent directory; a drop
\* on no target, on a target without a path or on a target that cannot be read
\* shows a message, hands nothing to rename and changes neither the file
\* system nor the Store nor the settings.
C23_DropDestination ==
    [][last'.cmd = "drop" =>
          IF last'.node.path # NoPath /\ Exists(fs, last'.node.path)
          THEN last'.dir = IF fs[last'.node.path] = "dir" THEN last'.node.path
                           ELSE Dirname(last'.node.path)
          ELSE /\ last'.dir = NoPath
               /\ Len(last'.msgs) = 1
               /\ last'.targets = <<>>
               /\ UNCHANGED <<fs, items, categoryList, cfgItems, cfgCategories>>]_vars

\* C23 witness: a drop on a favorite whose file is no longer on disk was
\* rejected.
C23_Witness ==
    /\ last.cmd = "drop"
    /\ last.node.kind = "fav"
    /\ ~Exists(fs, last.node.path)
    /\ last.msgs = <<"Invalid drop target">>
    /\ last.dir = NoPath

\* C24: a paste on an explicit target that is a directory has the target as
\* destination, on an explicit target that is a file the file's parent
\* directory; a paste without explicit target takes the first node of a
\* non-empty selection under the same rule.
C24_PasteDestination ==
    [][last'.cmd = "paste" =>
          LET t == IF last'.node.path # NoPath THEN last'.node
                   ELSE IF last'.sel # <<>> THEN last'.sel[1] ELSE Undefined
          IN  (t.path # NoPath /\ Exists(fs, t.path)) =>
                  last'.dir = IF fs[t.path] = "dir" THEN t.path ELSE Dirname(t.path)]_vars

\* the k-th clipboard item shares no subtree and no destination with another
IndependentItem(k) ==
    \A j \in DOMAIN clipboardPaths \ {k} :
        /\ ~IsUnder(clipboardPaths[j], clipboardPaths[k])
        /\ ~IsUnder(clipboardPaths[k], clipboardPaths[j])
        /\ Basename(clipboardPaths[j]) # Basename(clipboardPaths[k])

\* C25: in a paste of several items a failure on one item does not abort the
\* batch: every clipboard item that is on disk, shares nothing with another
\* item, and whose own copy or rename succeeds, is at its destination
\* afterwards (and, on Cut, no longer at its source).
C25_PasteBatchContinues ==
    [][last'.cmd = "paste" =>
          \A k \in DOMAIN clipboardPaths :
              LET src == clipboardPaths[k]
                  dst == Join(last'.dir, Basename(src))
              IN  (/\ IndependentItem(k)
                   /\ Exists(fs, src)
                   /\ IF clipboardOperation = "cut" THEN ~RenameFails(fs, src, dst)
                      ELSE ~CopyFails(fs, src, dst)) =>
                      /\ Exists(fs', dst)
                      /\ (clipboardOperation = "cut" /\ src # dst) => ~Exists(fs', src)]_vars

\* C26: in a delete of several items a failure on one item does not cancel
\* the others: every item of the batch that is on disk is deleted and removed
\* from the Store, and the settings hold the Store's entries once the batch
\* has been attempted.
C26_DeleteBatchContinues ==
    [][last'.cmd = "delete" =>
          /\ \A k \in DOMAIN last'.targets :
                Exists(fs, last'.targets[k]) =>
                    /\ ~Exists(fs', last'.targets[k])
                    /\ ~IsTracked(items', last'.targets[k])
          /\ cfgItems' = saveConfig(items')]_vars

\* C27: every command that changes the entries or the CategoryList writes
\* the settings exactly once and notifies exactly once.
C27_OneWriteOneNotification ==
    [][(/\ last'.cmd # "activate"
        /\ items' # items \/ categoryList' # categoryList) =>
          /\ last'.writes = 1
          /\ last'.fires = 1]_vars

\* C28: whenever a command handler has finished, normally or by a thrown
\* file system error, the persisted items are the entries of the Store mapped
\* through toRelativePath and the persisted categories are the CategoryList.
C28_StorePersisted ==
    /\ cfgItems = saveConfig(items)
    /\ cfgCategories = categoryList

TrackedOnce(its, p) == Cardinality({i \in DOMAIN its : its[i].path = p}) = 1

Unresolvable(f, l) ==
    /\ ~HasPath(l.node)
    /\ \/ l.sel = <<>>
       \/ ~HasPath(l.sel[1])
       \/ ~Exists(f, l.sel[1].path)

\* C31: a paste with no resolvable destination directory is rejected with a
\* warning and changes neither the filesystem nor the Store nor the clipboard.
C31_PasteWithoutDestinationRejected ==
    [][(last'.cmd = "paste" /\ Unresolvable(fs, last')) =>
          /\ last'.msgs # <<>>
          /\ UNCHANGED <<fs, items, categoryList, cfgItems, cfgCategories,
                         clipboardPaths, clipboardOperation>>]_vars

\* no path occurs twice in the sequence of paths s
NoRepeats(s) == \A i, j \in DOMAIN s : s[i] = s[j] => i = j

\* C32: the paths a cut or copy acts on are deduplicated: a path that occurs
\* more than once among the resolved nodes is once in the target list and
\* once in the clipboard.
C32_TargetsDeduplicated ==
    [][last'.cmd \in {"cut", "copy"} =>
          /\ NoRepeats(last'.targets)
          /\ last'.targets # <<>> => NoRepeats(clipboardPaths')]_vars

\* C33: in a Cut paste every rewrite of an entry's path comes after the
\* successful rename of that clipboard item and leads to the place the file
\* was moved to, and the persistence write comes only when the loop is past
\* every clipboard item.
C33_RewriteAfterRename ==
    [][last'.cmd = "paste" =>
          /\ \A i \in DOMAIN items :
                 items'[i].path # items[i].path =>
                     /\ last.cmd = "paste" /\ last.pc = "rename" /\ ~last.threw
                     /\ items[i].path = clipboardPaths[last.n]
                     /\ items[i].path \in last.moved
                     /\ items'[i].path = Join(last.dir, Basename(items[i].path))
                     /\ Exists(fs, items'[i].path)
                     /\ ~Exists(fs, items[i].path)
          /\ Len(items') = Len(items)
          /\ last'.writes > last.writes =>
                 /\ last'.n > Len(clipboardPaths)
                 /\ ~last'.threw]_vars

\* C33 witness: a Cut paste of two items renamed the first and rewrote its
\* entry, was thrown out by the rename of the second, and wrote nothing.
C33_Witness ==
    /\ last.cmd = "paste"
    /\ last.pc = "done"
    /\ last.threw
    /\ last.n = 2
    /\ last.writes = 0
    /\ clipboardPaths[1] \in last.moved
    /\ IsTracked(items, Join(last.dir, Basename(clipboardPaths[1])))
    /\ cfgItems # saveConfig(items)

C34_DropWitness ==
    /\ last.cmd = "drop"
    /\ last.moved # {}
    /\ Len(items) > 0

\* the sort order puts the child a before or level with the child b
OrderedByMode(order, f, a, b) ==
    CASE order = "MODIFIED" -> getMtime(f, a) >= getMtime(f, b)
      [] order = "DESC" ->
            IndexOf(Collation, toLowerCase(Basename(a))) >= IndexOf(Collation, toLowerCase(Basename(b)))
      [] OTHER ->
            IndexOf(Collation, toLowerCase(Basename(a))) <= IndexOf(Collation, toLowerCase(Basename(b)))

\* C35: in the ordered children of a favorited folder every directory is
\* before every file under every sort order, the sort order holds among the
\* directories and among the files, and Manual orders as Ascending does.
C35_DirectoriesFirst ==
    last.cmd = "getFilesystemChildren" =>
        /\ Range(last.text) = Range(last.src) /\ Len(last.text) = Len(last.src)
        /\ \A i, j \in DOMAIN last.text :
               i < j =>
                   /\ IsDirectory(fs, last.text[j]) => IsDirectory(fs, last.text[i])
                   /\ IsDirectory(fs, last.text[i]) = IsDirectory(fs, last.text[j]) =>
                          OrderedByMode(last.name, fs, last.text[i], last.text[j])
        /\ getFilesystemChildren(fs, "MANUAL", last.src)
               = getFilesystemChildren(fs, "ASC", last.src)

\* C35 witness: under Descending, of four children listed files first, the
\* two directories were put first, each group from z to a.
C35_Witness ==
    /\ last.cmd = "getFilesystemChildren"
    /\ last.name = "DESC"
    /\ last.src = <<(<<"w", "a">>), (<<"w", "b">>), (<<"w", "d">>), (<<"w", "o">>)>>
    /\ last.text = <<(<<"w", "o">>), (<<"w", "d">>), (<<"w", "b">>), (<<"w", "a">>)>>

\* the settings hold what saveConfig, saveCategories and the sort command
\* write of the Store
Persisted ==
    /\ cfgItems = saveConfig(items)
    /\ cfgCategories = categoryList
    /\ cfgSortOrder = sortOrder

\* C36: an activation that finds the Store as it was persisted restores the
\* same entries in the same order (path, type and category of each), the
\* same CategoryList and the same sort order.
C36_RestoreReturnsStore ==
    [][(last'.cmd = "activate" /\ Persisted) =>
          /\ items' = items
          /\ categoryList' = categoryList
          /\ sortOrder' = sortOrder]_vars

\* C36 witness: three entries, one stored relative below the root, one
\* stored relative in a sibling folder and one stored absolute, one of them
\* in a category, with an empty category and the Descending order, restored.
C36_Witness ==
    /\ last.cmd = "activate"
    /\ Persisted
    /\ sortOrder = "DESC"
    /\ categoryList = <<"X", "Y">>
    /\ Len(items) = 3
    /\ items[1].path = <<"o", "a">> /\ cfgItems[1].path.abs
    /\ items[2].path = <<"w2", "a">> /\ ~cfgItems[2].path.abs
    /\ items[3].path = <<"w", "d", "a">> /\ items[3].category = "X"

\* the entry i is the favorite the node shows
ShownBy(its, i, node) ==
    /\ node.kind = "fav"
    /\ its[i].path = node.path
    /\ its[i].category = node.category

\* C37: a rename of a tracked favorite that succeeds on disk rewrites the
\* path of that entry to the new path and leaves its category, its index,
\* every other entry and the number of entries as they were; a rename that
\* fails on disk leaves the Store unchanged.
C37_RenameRewritesItsEntry ==
    [][(last'.cmd = "rename" /\ last'.node.kind = "fav") =>
          IF last'.threw
          THEN UNCHANGED <<items, categoryList, cfgItems, cfgCategories>>
          ELSE /\ Len(items') = Len(items)
               /\ \E i \in DOMAIN items :
                      /\ ShownBy(items, i, last'.node)
                      /\ items'[i].path = Join(Dirname(last'.node.path), last'.name)
                      /\ items'[i].category = items[i].category]_vars

\* the command recorded in l moved files and every step of it succeeded: a
\* Cut paste, or the rename of a folder
MovedAll(f, l) ==
    /\ ~l.threw
    /\ \/ l.cmd = "paste" /\ l.op = "cut"
       \/ l.cmd = "rename" /\ HasPath(l.node) /\ IsDirectory(f, l.node.path)

\* C38: after a Cut paste or the rename of a folder in which every step on
\* the filesystem succeeded, every entry whose path existed before the
\* command, the entries inside a moved folder included, has a path that
\* exists.
C38_StoreFollowsMoves ==
    [][MovedAll(fs, last') =>
          /\ Len(items') = Len(items)
          /\ \A i \in DOMAIN items :
                 Exists(fs, items[i].path) => Exists(fs', items'[i].path)]_vars

\* C39: a paste that began with a Copy clipboard moves none of its items,
\* also when cut or copy ran while it was suspended in a copy, and when it
\* finishes it leaves the clipboard that the command in between has set.
C39_PasteKeepsItsOperation ==
    [][(last'.cmd = "paste" /\ last'.op = "copy") =>
          /\ last'.moved = {}
          /\ (last.cmd = "paste" /\ last.pc = "copy" /\ last'.pc = "done"
                 /\ last.name # "") =>
                 /\ clipboardPaths' = clipboardPaths
                 /\ clipboardOperation' = clipboardOperation]_vars

\* the positions of the tree at which entries are rendered: k at root level,
\* <<k, j>> as child j of the category node at position k of the root level
Renderings ==
    LET root == getChildren(items, categoryList)
    IN  {<<k>> : k \in {n \in DOMAIN root : root[n].kind = "fav"}}
        \cup UNION {{<<k, j>> : j \in DOMAIN getChildrenOfCategory(items, root[k])} :
                       k \in {n \in DOMAIN root : root[n].kind = "cat"}}

\* C40: every entry is rendered exactly once, at root level when it has no
\* category and else under the one node of its category, and every name of
\* CategoryList has exactly one category node, with entries or without.
C40_EveryEntryRenderedOnce ==
    LET root == getChildren(items, categoryList)
    IN  /\ Cardinality(Renderings) = Len(items)
        /\ \A i \in DOMAIN items :
               IF items[i].category = NoCat
               THEN /\ \E k \in DOMAIN root : root[k] = FavNode(items[i])
                    /\ \A k \in DOMAIN root :
                           root[k].kind = "cat" =>
                               FavNode(items[i]) \notin Range(getChildrenOfCategory(items, root[k]))
               ELSE /\ \A k \in DOMAIN root : root[k] # FavNode(items[i])
                    /\ Cardinality({k \in DOMAIN root :
                           /\ root[k].kind = "cat"
                           /\ FavNode(items[i]) \in Range(getChildrenOfCategory(items, root[k]))}) = 1
        /\ \A c \in Range(categoryList) :
               Cardinality({k \in DOMAIN root : root[k] = CatNode(c)}) = 1

\* C40 witness: CategoryList names X twice and holds the empty Y, and two
\* entries hold one path, one at root level and one in X.
C40_Witness ==
    /\ Cardinality({i \in DOMAIN categoryList : categoryList[i] = "X"}) = 2
    /\ "Y" \in Range(categoryList)
    /\ \A i \in DOMAIN items : items[i].category # "Y"
    /\ \E i, j \in DOMAIN items :
           /\ items[i].category = NoCat
           /\ items[j].category = "X"
           /\ items[j].path = items[i].path

====
